---- MODULE Spec2Model ----
(***************************************************************************)
(* A model of opentele2's tdata storage: the TDesktop client (load, save,  *)
(* conversion from and to a Telethon session), its accounts, the MTP       *)
(* authorization blob and the encrypted descriptor.                        *)
(*                                                                         *)
(* Two levels.  The orchestration level (TDesktop, Account,                *)
(* StorageAccount) keeps files, keys and encrypted blobs as structured     *)
(* values: a blob sealed under a key opens under that key only.  The       *)
(* codec level (further down) works on bytes.                              *)
(***************************************************************************)
EXTENDS Integers, Sequences, FiniteSets, TLC

(***************************************************************************)
(* Bounds of the model.                                                    *)
(***************************************************************************)
\* operations performed on the client and the directory in one behaviour
MaxSteps == 3
\* Account objects alive at once (the accounts of one load plus a stale one)
MaxObjs == 6
\* the longest payload encrypted
MaxPayload == 17

(***************************************************************************)
(* Program constants.                                                      *)
(***************************************************************************)
kMaxAccounts == 3
PBKDF2_ITERATIONS == 100000
PBKDF2_ITERATIONS_EMPTY == 1
LocalEncryptSaltSize == 32
kSize == 256
MtpAuthorizationBlock == 75
APP_VERSION == 3004000
TDF_MAGIC == "TDF$"
kDefaultKeyFile == <<"d", "a", "t", "a">>

None == [t |-> "None"]
NoFile == [t |-> "NoFile"]

(***************************************************************************)
(* Strings the model computes with are sequences of characters.            *)
(***************************************************************************)
\* the key files tried: the default one and "alt"
KeyFiles == {kDefaultKeyFile, <<"a", "l", "t">>}

\* passcodes, as sequences of code points: "", "p" and "é"
AsciiPasscodes == {<<>>, <<112>>}
Passcodes == AsciiPasscodes \cup {<<233>>}

\* str.encode("ascii"): the code points as bytes, UnicodeEncodeError above 127
encode_ascii(s) ==
    [ok |-> \A i \in 1..Len(s) : s[i] < 128, bytes |-> [t |-> "bytes", v |-> s]]

EmptyBytes == [t |-> "bytes", v |-> <<>>]

isEmpty(b) == b.t = "bytes" /\ b.v = <<>>

\* str(n) for 0 <= n < 100
ToStr(n) ==
    LET Digits == <<"0", "1", "2", "3", "4", "5", "6", "7", "8", "9">>
    IN IF n < 10 THEN <<Digits[n + 1]>>
       ELSE <<Digits[(n \div 10) + 1], Digits[(n % 10) + 1]>>

ComposeDataString(dataName, index) ==
    LET result == SelectSeq(dataName, LAMBDA c : c # "#")
    IN IF index > 0 THEN result \o <<"#">> \o ToStr(index + 1) ELSE result

\* MD5 of the name: distinct names give distinct keys
ComputeDataNameKey(dataName) == [t |-> "md5le", of |-> dataName]

\* 16 hex digits of the low 64 bits: distinct keys give distinct parts
ToFilePart(val) == [t |-> "hex16", of |-> val]

DataNames ==
    {ToFilePart(ComputeDataNameKey(ComposeDataString(kf, i))) :
        kf \in KeyFiles, i \in 0..(kMaxAccounts - 1)}

(***************************************************************************)
(* Keys and sealed blobs.                                                  *)
(***************************************************************************)
RandIds == {"r1", "r2"}

\* os.urandom(size): r names the outcome of the random source, n the draw
RandomGenerate(size, r, n) == [t |-> "rnd", size |-> size, r |-> r, n |-> n]

\* PBKDF2-HMAC-SHA512 of SHA512(salt || passcode || salt): a value that is
\* determined by, and determines, the salt and the passcode
CreateLocalKey(salt, passcode) ==
    [t |-> "key", kdf |-> "pbkdf2", salt |-> salt, pass |-> passcode,
     iter |-> IF isEmpty(passcode) THEN PBKDF2_ITERATIONS_EMPTY
              ELSE PBKDF2_ITERATIONS]

PERF_LOCAL_KEY ==
    [t |-> "key", kdf |-> "perf", salt |-> None, pass |-> None, iter |-> 0]

PERF_PASSCODE_KEY_SALT ==
    [t |-> "rnd", size |-> LocalEncryptSaltSize, r |-> "perf", n |-> 0]

\* the constant in the source equals CreateLocalKey of the constant salt and
\* the empty passcode
PERF_PASSCODE_KEY == CreateLocalKey(PERF_PASSCODE_KEY_SALT, EmptyBytes)

\* PrepareEncrypted at the orchestration level: a blob that remembers its
\* plaintext and the key it was sealed under
Sealed(plain, key) == [t |-> "enc", plain |-> plain, key |-> key]

PERF_PASSCODE_KEY_ENCRYPTED == Sealed(<<PERF_LOCAL_KEY>>, PERF_PASSCODE_KEY)

\* DecryptLocal at the orchestration level: the SHA1 check passes exactly for
\* the key the blob was sealed under
Unseal(encrypted, authKey) ==
    IF encrypted.t # "enc"
    THEN [err |-> "TDataBadEncryptedDataSize", plain |-> <<>>]
    ELSE IF encrypted.key # authKey
    THEN [err |-> "TDataBadDecryptKey", plain |-> <<>>]
    ELSE [err |-> "ok", plain |-> encrypted.plain]

(***************************************************************************)
(* Framed files.                                                           *)
(***************************************************************************)
\* the trailing MD5 over payload, size, version and magic
FileMd5(data, version, magic) ==
    [t |-> "md5", of |-> <<data, Len(data), version, magic>>]

\* FileWriteDescriptor.finish and WriteFile: the file written
FramedFile(data) ==
    [t |-> "file", magic |-> TDF_MAGIC, version |-> APP_VERSION,
     data |-> data, md5 |-> FileMd5(data, APP_VERSION, TDF_MAGIC)]

\* one candidate of ReadFile; a file of fewer than 16 bytes behind magic and
\* version (t = "short") has a negative dataSize, which
\* int(dataSize).to_bytes(4, "little") refuses with OverflowError
ReadCandidate(f) ==
    IF f = NoFile THEN "TFileNotFound"
    ELSE IF f.magic # TDF_MAGIC THEN "TDataInvalidMagic"
    ELSE IF f.t = "short" THEN "OverflowError"
    ELSE IF f.md5 # FileMd5(f.data, f.version, f.magic)
    THEN "TDataInvalidCheckSum"
    ELSE "ok"

RECURSIVE ReadFileFrom(_, _, _)
ReadFileFrom(cands, i, tries_exception) ==
    IF i > Len(cands)
    THEN [err |-> tries_exception, version |-> 0, data |-> <<>>]
    ELSE LET attempt == ReadCandidate(cands[i])
         IN IF attempt = "ok"
            THEN [err |-> "ok", version |-> cands[i].version,
                  data |-> cands[i].data]
            ELSE IF attempt = "OverflowError"
            THEN [err |-> attempt, version |-> 0, data |-> <<>>]
            ELSE ReadFileFrom(cands, i + 1, attempt)

\* cands: the files with suffix "s", "1" and "0", in this order
ReadFile(cands) == ReadFileFrom(cands, 1, "TFileNotFound")

\* the orchestration level keeps the "s" file of each name only
OnlyS(f) == <<f, NoFile, NoFile>>

\* ReadEncryptedFile after its ReadFile: the first array of the file, opened
decryptRead(result, authKey) ==
    IF result.err # "ok" THEN [err |-> result.err, plain |-> <<>>]
    ELSE IF Len(result.data) < 1
    THEN [err |-> "TDataBadEncryptedDataSize", plain |-> <<>>]
    ELSE Unseal(result.data[1], authKey)

ReadEncryptedFile(f, authKey) == decryptRead(ReadFile(OnlyS(f)), authKey)

(***************************************************************************)
(* MTP configuration: the data centers that have an IPv4 TCP endpoint.     *)
(***************************************************************************)
\* MTP.Config(Environment.Production): the built-in table, DC 1 to 5
BuiltInDcs == 1..5

(***************************************************************************)
(* Accounts.  An Account and its StorageAccount are one record; the        *)
(* client refers to accounts by object identity (Oids).                    *)
(***************************************************************************)
Oids == 1..MaxObjs
Free == [t |-> "Free"]
EmptyHeap == [o \in Oids |-> Free]

\* Account.__init__ with StorageAccount.__init__
NewAccount(keyFile, index) ==
    [t |-> "Account", index |-> index, keyFile |-> keyFile,
     local_keyFile |-> ComposeDataString(keyFile, index),
     dataNameKey |-> ComputeDataNameKey(ComposeDataString(keyFile, index)),
     localKey |-> None, UserId |-> 0, MainDcId |-> 0,
     mtpKeys |-> <<>>, mtpKeysToDestroy |-> <<>>, authKey |-> None,
     isLoaded |-> FALSE, config |-> BuiltInDcs]

\* the keys of a list that sit at the main data center
MainKeys(keys, dcId) == SelectSeq(keys, LAMBDA k : k.dcId = dcId)

\* Account._findMainAuthKey: the first key at MainDcId, or the exception
findMainAuthKey(a) ==
    LET found == MainKeys(a.mtpKeys, a.MainDcId)
    IN IF found # <<>>
       THEN [acct |-> [a EXCEPT !.authKey = found[1]], err |-> "ok"]
       ELSE [acct |-> a, err |-> "TDataAuthKeyNotFound"]

\* the tail of _setMtpAuthorization and of _setMtpAuthorizationCustom
\* "self.__isLoaded = True" is reached only when no exception was raised
finishAuthorization(a) ==
    IF findMainAuthKey(a).err = "ok"
    THEN [findMainAuthKey(a) EXCEPT !.acct.isLoaded = TRUE]
    ELSE findMainAuthKey(a)

\* Account._setMtpAuthorizationCustom
setMtpAuthorizationCustom(a, dcId, userId, mtpKeys) ==
    finishAuthorization(
        [a EXCEPT !.MainDcId = dcId, !.UserId = userId, !.mtpKeys = mtpKeys])

\* Account._setMtpAuthorization on a blob already split into its fields
\* (the byte level of the blob is SpecAcct's)
setMtpAuthorizationFields(a, ser) ==
    finishAuthorization(
        [a EXCEPT !.UserId = ser.UserId, !.MainDcId = ser.MainDcId,
                  !.mtpKeys = ser.mtpKeys,
                  !.mtpKeysToDestroy = ser.mtpKeysToDestroy])

\* Account.serializeMtpAuthorization, as fields
serializeFields(a) ==
    [t |-> "auth", UserId |-> a.UserId, MainDcId |-> a.MainDcId,
     mtpKeys |-> a.mtpKeys, mtpKeysToDestroy |-> a.mtpKeysToDestroy]

\* the content of a map file; the keys of the map are not modelled
MapPlain == <<"map">>

\* MapData.read after its ReadFile: TRUE when the map opens under localKey
mapOpens(result, localKey) ==
    /\ result.err = "ok"
    /\ Len(result.data) >= 3
    /\ Unseal(result.data[3], localKey).err = "ok"

\* MapData.read: TRUE when no exception is raised
readMap(f, localKey) == mapOpens(ReadFile(OnlyS(f)), localKey)

\* StorageAccount._readMtpData after its ReadEncryptedFile
applyMtpData(a, mtp) ==
    IF mtp.err # "ok" THEN [acct |-> a, err |-> mtp.err]
    ELSE IF Len(mtp.plain) < 2 \/ mtp.plain[1] # MtpAuthorizationBlock
    THEN [acct |-> a, err |-> "TDataInvalidMagic"]
    ELSE setMtpAuthorizationFields(a, mtp.plain[2])

\* StorageAccount._readMtpData
readMtpData(a, f) == applyMtpData(a, ReadEncryptedFile(f, a.localKey))

\* StorageAccount._readMtpConfig after its ReadEncryptedFile: the
\* configuration of a readable config file, the built-in one otherwise
configOf(file) ==
    IF file.err = "ok" /\ Len(file.plain) >= 1 /\ file.plain[1].hasPorts
    THEN file.plain[1].dcs
    ELSE BuiltInDcs

\* StorageAccount._readMtpConfig
readMtpConfig(a, f) == configOf(ReadEncryptedFile(f, a.localKey))

\* StorageAccount.start after _readMapWith: the configuration is read
\* unless an exception was raised or performance mode is on
startConfig(r, cfg, perf) ==
    IF r.err # "ok" \/ perf THEN r
    ELSE [r EXCEPT !.acct.config = readMtpConfig(r.acct, cfg)]

\* StorageAccount._readMapWith: a map that does not open is no exception
readMapWith(a, dir) ==
    IF readMap(dir.map, a.localKey) THEN readMtpData(a, dir.mtp)
    ELSE [acct |-> a, err |-> "ok"]

\* Account.prepareToStart with StorageAccount.start; dir is the account's
\* data on disk
prepareToStart(a, dir, localKey, perf) ==
    startConfig(readMapWith([a EXCEPT !.localKey = localKey], dir),
                dir.cfg, perf)

(***************************************************************************)
(* The TDesktop client.                                                    *)
(***************************************************************************)
NoPath == [t |-> "NoPath"]
\* the one tdata directory of the model
Dir == [t |-> "Dir"]
\* mainAccount is None
NoAcct == 0

\* TDesktop.__init__ before it loads
NewTDesktop(basePath, passcodeBytes, passcode, keyFile) ==
    [t |-> "TDesktop", basePath |-> basePath, keyFile |-> keyFile,
     passcode |-> passcode, passcodeBytes |-> passcodeBytes,
     accounts |-> <<>>, mainAccount |-> NoAcct, active_index |-> -1,
     passcodeKey |-> None, passcodeKeySalt |-> None,
     passcodeKeyEncrypted |-> None, localKey |-> None, isLoaded |-> FALSE]

\* readInt32 as the i-th read of a decrypted stream: 0 when past the end
Rd(stream, i) == IF i <= Len(stream) THEN stream[i] ELSE 0

\* objects the client no longer refers to, through its account list or its
\* main account, are gone
Collect(td, heap) ==
    [o \in Oids |->
        IF o \in {td.accounts[i] : i \in 1..Len(td.accounts)}
                     \cup (IF td.mainAccount = NoAcct THEN {}
                           ELSE {td.mainAccount})
        THEN heap[o] ELSE Free]

\* the object a constructor call gets
NewOid(heap) == CHOOSE o \in Oids : heap[o] = Free /\ \A p \in 1..(o - 1) : heap[p] # Free

\* a loop in which an account that fails takes the earlier ones with it
appendOrDrop(prev, index, r) ==
    IF index >= 0 /\ index < kMaxAccounts /\ r.err = "ok" /\ r.acct.isLoaded
    THEN [accounts |-> Append(prev.accounts, NewOid(prev.heap)),
          heap |-> [prev.heap EXCEPT ![NewOid(prev.heap)] = r.acct]]
    ELSE [accounts |-> <<>>, heap |-> prev.heap]

\* one round of the loop of __loadFromTData: the account of the index is
\* appended when it started without exception and is loaded
appendLoaded(prev, index, r) ==
    IF index >= 0 /\ index < kMaxAccounts /\ r.err = "ok" /\ r.acct.isLoaded
    THEN [accounts |-> Append(prev.accounts, NewOid(prev.heap)),
          heap |-> [prev.heap EXCEPT ![NewOid(prev.heap)] = r.acct]]
    ELSE prev

\* Account(self, keyFile = self.keyFile, index = index) and prepareToStart
startAccount(td, disk, perf, account) ==
    prepareToStart(account, disk.dir[ToFilePart(account.dataNameKey)],
                   td.localKey, perf)

\* the loop of __loadFromTData over the first i indices of the key file:
\* the accounts appended so far and the heap
RECURSIVE loadAccounts(_, _, _, _, _, _)
loadAccounts(td, heap, disk, perf, info, i) ==
    IF i = 0 THEN [accounts |-> <<>>, heap |-> heap]
    ELSE appendLoaded(loadAccounts(td, heap, disk, perf, info, i - 1),
                      Rd(info, 1 + i),
                      startAccount(td, disk, perf,
                                   NewAccount(td.keyFile, Rd(info, 1 + i))))

\* the account the loop "for account in self.accounts" stops at
RECURSIVE firstWithIndex(_, _, _, _)
firstWithIndex(accounts, heap, active_index, i) ==
    IF i > Len(accounts) THEN NoAcct
    ELSE IF heap[accounts[i]].index = active_index THEN accounts[i]
    ELSE firstWithIndex(accounts, heap, active_index, i + 1)

\* the active index of the key file: read when the stream is not at its end
activeIndexOf(info) ==
    IF Len(info) > 1 + Rd(info, 1) THEN info[2 + Rd(info, 1)] ELSE 0

\* "if not self.__mainAccount: self.__mainAccount = self.accounts[0]"
mainOrFirst(td, found) ==
    IF found # NoAcct THEN found
    ELSE IF td.mainAccount # NoAcct THEN td.mainAccount
    ELSE td.accounts[1]

\* the end of __loadFromTData: active index, main account, isLoaded
selectMainAccount(td, heap, active_index) ==
    [td EXCEPT !.active_index = active_index,
               !.mainAccount =
                   mainOrFirst(td, firstWithIndex(td.accounts, heap,
                                                  active_index, 1)),
               !.isLoaded = TRUE]

\* Expects(condition, message): the base exception with the message
NoAccountLoaded == "OpenTeleException: No account has been loaded"

\* the result of a load: the client, its objects, the exception ("ok": none)
Loaded(td, heap) == [td |-> td, heap |-> Collect(td, heap), err |-> "ok"]
Raised(td, heap, err) == [td |-> td, heap |-> heap, err |-> err]

\* __loadFromTData from the accounts loop on
loadFromInfo(td, heap, info, loaded) ==
    IF Len(loaded.accounts) = 0
    THEN Raised(td, heap, NoAccountLoaded)
    ELSE Loaded(selectMainAccount([td EXCEPT !.accounts = loaded.accounts],
                                  loaded.heap, activeIndexOf(info)),
                loaded.heap)

\* __loadFromTData from the decrypted account list on
loadFromList(td, heap, disk, perf, info) ==
    IF info.err # "ok" THEN Raised(td, heap, info.err)
    ELSE IF ~(Rd(info.plain, 1) > 0)
    THEN Raised(td, heap, "OpenTeleException: accountsCount is zero")
    ELSE loadFromInfo(td, heap, info.plain,
                      loadAccounts(td, heap, disk, perf, info.plain,
                                   Rd(info.plain, 1)))

\* __loadFromTData from the decrypted local key on
loadFromKey(td, heap, disk, perf, keyData, keyInnerData) ==
    IF keyInnerData.err # "ok" THEN Raised(td, heap, keyInnerData.err)
    ELSE loadFromList([td EXCEPT !.localKey = keyInnerData.plain[1],
                                 !.passcodeKeyEncrypted = keyData.data[2],
                                 !.passcodeKeySalt = keyData.data[1]],
                      heap, disk, perf,
                      Unseal(keyData.data[3], keyInnerData.plain[1]))

\* __loadFromTData from the passcode key on
loadFromPasscodeKey(td, heap, disk, perf, keyData) ==
    loadFromKey(td, heap, disk, perf, keyData,
                Unseal(keyData.data[2], td.passcodeKey))

\* __loadFromTData from the key file on
loadFromKeyFile(td, heap, disk, perf, keyData) ==
    IF keyData.err # "ok" THEN Raised(td, heap, keyData.err)
    ELSE IF Len(keyData.data) < 3 THEN Raised(td, heap, "QDataStreamFailed")
    ELSE loadFromPasscodeKey(
             [td EXCEPT !.passcodeKey =
                            CreateLocalKey(keyData.data[1], td.passcodeBytes)],
             heap, disk, perf, keyData)

\* "self.accounts.clear()"
clearAccounts(td) == [td EXCEPT !.accounts = <<>>]

\* TDesktop.__loadFromTData: the client and the heap it leaves, and the
\* exception it raises
loadFromTData(td, heap, disk, perf) ==
    IF td.basePath = NoPath THEN Raised(td, heap, "OpenTeleException: No folder provided")
    ELSE loadFromKeyFile(clearAccounts(td), Collect(clearAccounts(td), heap),
                         disk, perf, ReadFile(OnlyS(disk.key[td.keyFile])))

\* an optional string argument: given, or left at None
Given(s) == [given |-> TRUE, v |-> s]
NotGiven == [given |-> FALSE, v |-> <<>>]

\* "if passcode is not None and self.__passcode != passcode" of LoadTData
\* and SaveTData
setPasscode(td, passcode) ==
    IF passcode.given /\ td.passcode # passcode.v
    THEN [td EXCEPT !.passcode = passcode.v,
                    !.passcodeBytes = encode_ascii(passcode.v).bytes]
    ELSE td

\* the encoding of the passcode fails: the passcode is set, its bytes not
passcodeFails(td, passcode) ==
    passcode.given /\ td.passcode # passcode.v /\ ~encode_ascii(passcode.v).ok

\* TDesktop.LoadTData(passcode = passcode) on the client's own directory
LoadTDataOf(td, heap, disk, perf, passcode) ==
    IF td.basePath = NoPath THEN Raised(td, heap, "OpenTeleException: No folder provided")
    ELSE IF passcodeFails(td, passcode)
    THEN Raised([td EXCEPT !.passcode = passcode.v], heap,
                "UnicodeEncodeError")
    ELSE loadFromTData(setPasscode(td, passcode), heap, disk, perf)

(***************************************************************************)
(* Saving.                                                                 *)
(***************************************************************************)
\* the files StorageAccount and TDesktop write
MapFile(localKey) ==
    FramedFile(<<EmptyBytes, EmptyBytes, Sealed(MapPlain, localKey)>>)

MtpFile(auth, localKey) ==
    FramedFile(<<Sealed(<<MtpAuthorizationBlock, auth>>, localKey)>>)

ConfigFile(hasPorts, dcs, localKey) ==
    FramedFile(<<Sealed(<<[hasPorts |-> hasPorts, dcs |-> dcs]>>, localKey)>>)

KeyFile(salt, keyEncrypted, indices, active_index, localKey) ==
    FramedFile(<<salt, keyEncrypted,
                 Sealed(<<Len(indices)>> \o indices \o <<active_index>>,
                        localKey)>>)

\* TDesktop.__generateLocalKey: the client with its new keys
generatedKeys(td, perf, r) ==
    IF perf /\ isEmpty(td.passcodeBytes)
    THEN [td EXCEPT !.localKey = PERF_LOCAL_KEY,
                    !.passcodeKeySalt = PERF_PASSCODE_KEY_SALT,
                    !.passcodeKey = PERF_PASSCODE_KEY,
                    !.passcodeKeyEncrypted = PERF_PASSCODE_KEY_ENCRYPTED,
                    !.isLoaded = TRUE]
    ELSE [td EXCEPT
             !.localKey =
                 CreateLocalKey(RandomGenerate(LocalEncryptSaltSize, r, 2),
                                RandomGenerate(kSize, r, 1)),
             !.passcodeKeySalt = RandomGenerate(LocalEncryptSaltSize, r, 3),
             !.passcodeKey =
                 CreateLocalKey(RandomGenerate(LocalEncryptSaltSize, r, 3),
                                td.passcodeBytes),
             !.passcodeKeyEncrypted =
                 Sealed(<<CreateLocalKey(
                              RandomGenerate(LocalEncryptSaltSize, r, 2),
                              RandomGenerate(kSize, r, 1))>>,
                        CreateLocalKey(
                            RandomGenerate(LocalEncryptSaltSize, r, 3),
                            td.passcodeBytes)),
             !.isLoaded = TRUE]

\* TDesktop.__generateLocalKey: the accounts get the new local key in the
\* branch that draws one, and keep theirs in the performance branch
rekeyedAccounts(td, heap, perf, localKey) ==
    IF perf /\ isEmpty(td.passcodeBytes) THEN heap
    ELSE [o \in Oids |->
             IF \E i \in 1..Len(td.accounts) : td.accounts[i] = o
             THEN [heap[o] EXCEPT !.localKey = localKey]
             ELSE heap[o]]

\* the state a save works on: client, objects, directory, exception, and
\* what the file system does: io.how of "mkpath" is an account directory
\* io.part that os.makedirs cannot make, "open" one in which no file opens
\* for writing, "ok" neither
Saving(td, heap, disk, err, io) ==
    [td |-> td, heap |-> heap, disk |-> disk, err |-> err, io |-> io]

\* Storage.WriteFile of the first file of an account in directory part: the
\* exception it ends in
WriteFileFails(st, part) ==
    IF st.io.part # part THEN "ok"
    ELSE IF st.io.how = "mkpath" /\ st.disk.dir[part].map = NoFile
    THEN "OSError"
    ELSE IF st.io.how = "open" THEN "TDataSaveFailed"
    ELSE "ok"

\* TDesktop.__generateLocalKey
generateLocalKey(st, perf, r) ==
    [st EXCEPT !.td = generatedKeys(st.td, perf, r),
               !.heap = rekeyedAccounts(st.td, st.heap, perf,
                                        generatedKeys(st.td, perf, r).localKey)]

\* StorageAccount._writeData: where the account's files go
writeTarget(a, keyFile) ==
    IF keyFile.given /\ a.local_keyFile # keyFile.v
    THEN ComputeDataNameKey(keyFile.v)
    ELSE a.dataNameKey

\* StorageAccount._writeData: "self.__keyFile = keyFile"
retargeted(a, keyFile) ==
    IF keyFile.given /\ a.local_keyFile # keyFile.v
    THEN [a EXCEPT !.local_keyFile = keyFile.v]
    ELSE a

\* _writeMap, _writeMtpConfig and _writeMtpData: the files of the account
\* after them; the configuration is written outside performance mode only,
\* the authorization only when the account is loaded
writtenDir(a, d, perf) ==
    [map |-> MapFile(a.localKey),
     cfg |-> IF perf THEN d.cfg ELSE ConfigFile(FALSE, a.config, a.localKey),
     mtp |-> IF a.isLoaded THEN MtpFile(serializeFields(a), a.localKey)
             ELSE d.mtp]

\* Account._writeData of the i-th account
writeData(st, oid, keyFile, perf) ==
    IF st.err # "ok" THEN st
    ELSE IF st.heap[oid].localKey = None THEN [st EXCEPT !.err = "TDataSaveFailed"]
    ELSE IF WriteFileFails(st, ToFilePart(writeTarget(st.heap[oid], keyFile)))
                # "ok"
    THEN [st EXCEPT
             !.heap[oid] = retargeted(@, keyFile),
             !.err = WriteFileFails(st, ToFilePart(writeTarget(st.heap[oid],
                                                               keyFile)))]
    ELSE [st EXCEPT
             !.heap[oid] = retargeted(@, keyFile),
             !.disk.dir[ToFilePart(writeTarget(st.heap[oid], keyFile))] =
                 writtenDir(st.heap[oid], @, perf),
             !.err = IF st.heap[oid].isLoaded THEN "ok" ELSE "TDataSaveFailed"]

\* the loop of __writeAccounts over the first i accounts
RECURSIVE writeAll(_, _, _, _)
writeAll(st, keyFile, perf, i) ==
    IF i = 0 THEN st
    ELSE writeData(writeAll(st, keyFile, perf, i - 1), st.td.accounts[i],
                   keyFile, perf)

\* the key file of __writeAccounts, written when every account was
writeKeyFile(st) ==
    IF st.err # "ok" THEN st
    ELSE [st EXCEPT
             !.disk.key[st.td.keyFile] =
                 KeyFile(st.td.passcodeKeySalt, st.td.passcodeKeyEncrypted,
                         [i \in 1..Len(st.td.accounts) |->
                             st.heap[st.td.accounts[i]].index],
                         st.td.active_index, st.td.localKey)]

\* TDesktop.__writeAccounts
writeAccounts(st, keyFile, perf) ==
    IF Len(st.td.accounts) = 0 THEN [st EXCEPT !.err = "TDataSaveFailed"]
    ELSE writeKeyFile(writeAll(st, keyFile, perf, Len(st.td.accounts)))

\* SaveTData from "if not self.isLoaded()" on
saveLoaded(st, keyFile, perf, r) ==
    writeAccounts(IF st.td.isLoaded THEN st ELSE generateLocalKey(st, perf, r),
                  keyFile, perf)

\* SaveTData: the key file name, the base path and the passcode it sets
saveSettings(td, passcode, keyFile) ==
    [setPasscode(td, passcode) EXCEPT
        !.keyFile = IF keyFile.given THEN keyFile.v ELSE @,
        !.basePath = Dir,
        !.isLoaded = IF passcode.given /\ td.passcode # passcode.v
                     THEN FALSE ELSE @]

\* TDesktop.SaveTData(Dir, passcode, keyFile)
SaveTDataOf(td, heap, disk, perf, passcode, keyFile, r, io) ==
    IF passcodeFails(td, passcode)
    THEN Saving([td EXCEPT !.passcode = passcode.v,
                           !.keyFile = IF keyFile.given THEN keyFile.v ELSE @],
                heap, disk, "UnicodeEncodeError", io)
    ELSE saveLoaded(Saving(saveSettings(td, passcode, keyFile), heap, disk,
                           "ok", io),
                    keyFile, perf, r)

(***************************************************************************)
(* Conversion from and to a Telethon client.  A client is its session's    *)
(* dc_id and auth_key, its UserId (NoUserId: None) and the user the        *)
(* server knows the session as (me).                                       *)
(***************************************************************************)
NoUserId == -1

\* the key a QR login gives the new session
QRKey == 31

\* FromTDesktop taking the first endpoint of the whole table, not of the
\* main data center
FromTDesktopAnyDc(a) ==
    IF a.MainDcId \notin a.config THEN [err |-> "KeyError", client |-> None]
    ELSE [err |-> "ok",
          client |-> [dc_id |-> CHOOSE d \in a.config :
                                    \A e \in a.config : d <= e,
                      auth_key |-> a.authKey.key,
                      user_id |-> a.UserId, me |-> a.UserId]]

\* TelegramClient.FromTDesktop(account, flag = UseCurrentSession)
FromTDesktop(a) ==
    IF a.MainDcId \notin a.config THEN [err |-> "KeyError", client |-> None]
    ELSE [err |-> "ok",
          client |-> [dc_id |-> a.MainDcId, auth_key |-> a.authKey.key,
                      user_id |-> a.UserId, me |-> a.UserId]]

\* TDesktop.ToTelethon(flag = UseCurrentSession)
ToTelethonOf(td, heap) ==
    IF ~td.isLoaded THEN [err |-> "TDesktopNotLoaded", client |-> None]
    ELSE IF Len(td.accounts) = 0
    THEN [err |-> "TDesktopHasNoAccount", client |-> None]
    ELSE FromTDesktop(heap[td.mainAccount])

\* Account.FromTelethon up to "ss = copy.session": the client whose session
\* is taken; net tells whether the calls to the server succeed
sessionClient(client, newSession, net) ==
    IF ~newSession THEN [err |-> "ok", client |-> client]
    ELSE IF ~net THEN [err |-> "TelethonUnauthorized", client |-> None]
    ELSE [err |-> "ok",
          client |-> [client EXCEPT !.auth_key = QRKey, !.user_id = client.me]]

\* Account.FromTelethon: "if userId is None", which asks the server
knownUser(copy, net) ==
    IF copy.err # "ok" THEN copy
    ELSE IF copy.client.user_id # NoUserId THEN copy
    ELSE IF ~net THEN [err |-> "ConnectionError", client |-> None]
    ELSE [copy EXCEPT !.client.user_id = copy.client.me]

\* TDesktop._addSingleAccount of a new object
addSingleAccount(td, heap, r) ==
    IF r.err # "ok" THEN Raised(td, heap, r.err)
    ELSE [td |-> [td EXCEPT !.accounts = Append(@, NewOid(heap)),
                            !.mainAccount = IF @ = NoAcct
                                            THEN Append(td.accounts,
                                                        NewOid(heap))[1]
                                            ELSE @],
          heap |-> [heap EXCEPT ![NewOid(heap)] =
                       [r.acct EXCEPT !.localKey = td.localKey]],
          err |-> "ok"]

\* Account.FromTelethon(owner = td) from the capacity check on
attach(td, heap, copy) ==
    IF copy.err # "ok" THEN Raised(td, heap, copy.err)
    ELSE IF ~(Len(td.accounts) < kMaxAccounts)
    THEN Raised(td, heap, "MaxAccountLimit")
    ELSE addSingleAccount(td, heap,
             setMtpAuthorizationCustom(
                 NewAccount(td.keyFile, Len(td.accounts)),
                 copy.client.dc_id, copy.client.user_id,
                 <<[dcId |-> copy.client.dc_id,
                    key |-> copy.client.auth_key]>>))

\* Account.FromTelethon(client, flag, owner = td)
AccountFromTelethon(td, heap, client, newSession, net) ==
    attach(td, heap, knownUser(sessionClient(client, newSession, net), net))

\* TDesktop.FromTelethon(client, flag)
TDesktopFromTelethon(client, newSession, net, perf, r) ==
    AccountFromTelethon(
        generatedKeys(NewTDesktop(NoPath, EmptyBytes, <<>>, kDefaultKeyFile),
                      perf, r),
        EmptyHeap, client, newSession, net)

(***************************************************************************)
(* The MTP authorization at the level of bytes.  A Python integer that may *)
(* exceed 31 bits (UserId) is its 64 low bits in two's complement, most     *)
(* significant byte first, and the byte ext that continues them: 0 for a    *)
(* value >= 0, 255 for a negative one.                                      *)
(***************************************************************************)
\* struct.pack(">i", n) of QDataStream.writeInt32
writeInt32(n) ==
    <<(n \div 16777216) % 256, (n \div 65536) % 256, (n \div 256) % 256,
      n % 256>>

\* the Python integer of a 32-bit value
PyInt(n) ==
    [ext |-> IF n < 0 THEN 255 ELSE 0,
     low |-> [i \in 1..4 |-> IF n < 0 THEN 255 ELSE 0] \o writeInt32(n)]

\* a QDataStream on a byte string: the position of the next read, and
\* whether status() is still Ok
StreamOn(bytes) == [data |-> bytes, pos |-> 1, ok |-> TRUE]

\* QDataStream._read(n): the stream after it
after(s, n) ==
    IF s.pos + n - 1 <= Len(s.data) THEN [s EXCEPT !.pos = @ + n]
    ELSE [s EXCEPT !.pos = Len(s.data) + 1, !.ok = FALSE]

\* QDataStream.readInt32: the value read at the position of s
readInt32(s) ==
    IF s.pos + 3 <= Len(s.data)
    THEN (IF s.data[s.pos] >= 128 THEN s.data[s.pos] - 256
          ELSE s.data[s.pos]) * 16777216
         + s.data[s.pos + 1] * 65536 + s.data[s.pos + 2] * 256
         + s.data[s.pos + 3]
    ELSE 0

\* QDataStream.readUInt64
readUInt64(s) ==
    IF s.pos + 7 <= Len(s.data)
    THEN [ext |-> 0, low |-> SubSeq(s.data, s.pos, s.pos + 7)]
    ELSE PyInt(0)

\* "((self.__UserId << 32) | self.__MainDcId) == Account.kWideIdsTag" for
\* the two values read with readInt32: every byte of the result is 255
isWideIdsTag(UserId, MainDcId) ==
    /\ writeInt32(MainDcId) = <<255, 255, 255, 255>>
    /\ \A i \in 5..8 : MainDcId < 0 \/ UserId.low[i] = 255
    /\ MainDcId < 0 \/ UserId.ext = 255

\* _setMtpAuthorization: the two 32-bit fields
readLegacyIds(a, s) ==
    [acct |-> [a EXCEPT !.UserId = PyInt(readInt32(s)),
                        !.MainDcId = readInt32(after(s, 4))],
     s |-> after(after(s, 4), 4), err |-> "ok"]

\* _setMtpAuthorization: the wide fields behind the tag, and the Expects
readWideIds(p) ==
    IF isWideIdsTag(p.acct.UserId, p.acct.MainDcId)
    THEN [acct |-> [p.acct EXCEPT !.UserId = readUInt64(p.s),
                                  !.MainDcId = readInt32(after(p.s, 8))],
          s |-> after(after(p.s, 8), 4),
          err |-> IF after(after(p.s, 8), 4).ok THEN "ok"
                  ELSE "QDataStreamFailed"]
    ELSE [p EXCEPT !.err = IF p.s.ok THEN "ok" ELSE "QDataStreamFailed"]

\* AuthKey.FromStream(stream, type, dcId): the key of the next kSize bytes,
\* which the stream must hold
FromStream(s, dcId) ==
    [err |-> IF after(s, kSize).ok THEN "ok" ELSE "QDataStreamFailed",
     s |-> after(s, kSize),
     key |-> [dcId |-> dcId,
              key |-> SubSeq(s.data, s.pos, after(s, kSize).pos - 1)]]

\* the loop of readKeys; a key that cannot be read ends it
RECURSIVE readKeyList(_, _, _)
readKeyList(s, key_count, keys) ==
    IF key_count <= 0 THEN [keys |-> keys, s |-> s, err |-> "ok"]
    ELSE IF FromStream(after(s, 4), readInt32(s)).err # "ok"
    THEN [keys |-> keys, s |-> after(after(s, 4), kSize),
          err |-> "QDataStreamFailed"]
    ELSE readKeyList(after(after(s, 4), kSize), key_count - 1,
                     Append(keys, FromStream(after(s, 4), readInt32(s)).key))

\* readKeys of _setMtpAuthorization
readKeys(s) ==
    IF ~after(s, 4).ok
    THEN [keys |-> <<>>, s |-> after(s, 4), err |-> "QDataStreamFailed"]
    ELSE readKeyList(after(s, 4), readInt32(s), <<>>)

\* "self.__mtpKeys.clear(); self.__mtpKeysToDestroy.clear();
\* readKeys(self.__mtpKeys)", r being the keys read
readMtpKeys(p, r) ==
    IF p.err # "ok" THEN p
    ELSE [acct |-> [p.acct EXCEPT !.mtpKeys = r.keys,
                                  !.mtpKeysToDestroy = <<>>],
          s |-> r.s, err |-> r.err]

\* "readKeys(self.__mtpKeysToDestroy)"
readMtpKeysToDestroy(p, r) ==
    IF p.err # "ok" THEN p
    ELSE [acct |-> [p.acct EXCEPT !.mtpKeysToDestroy = r.keys],
          s |-> r.s, err |-> r.err]

\* the end of _setMtpAuthorization
authorized(p) ==
    IF p.err # "ok" THEN [acct |-> p.acct, err |-> p.err]
    ELSE finishAuthorization(p.acct)

keysRead(p) == readMtpKeys(p, readKeys(p.s))

keysToDestroyRead(p) == readMtpKeysToDestroy(p, readKeys(p.s))

\* Account._setMtpAuthorization(serialized)
setMtpAuthorization(a, serialized) ==
    authorized(keysToDestroyRead(keysRead(
        readWideIds(readLegacyIds(a, StreamOn(serialized))))))

\* writeKeys of serializeMtpAuthorization, behind the count
RECURSIVE writeKeyList(_, _)
writeKeyList(keys, i) ==
    IF i = 0 THEN <<>>
    ELSE writeKeyList(keys, i - 1) \o writeInt32(keys[i].dcId) \o keys[i].key

writeKeys(keys) == writeInt32(Len(keys)) \o writeKeyList(keys, Len(keys))

\* struct.pack(">q", i) of QDataStream.writeInt64 takes -2^63 .. 2^63 - 1
fitsInt64(i) == (i.ext = 255) = (i.low[1] >= 128)

\* Account.serializeMtpAuthorization
serializeMtpAuthorization(a) ==
    IF ~a.isLoaded THEN [err |-> "OpenTeleException", bytes |-> <<>>]
    ELSE IF ~fitsInt64(a.UserId) THEN [err |-> "struct.error", bytes |-> <<>>]
    ELSE [err |-> "ok",
          bytes |-> PyInt(-1).low \o a.UserId.low \o writeInt32(a.MainDcId)
                    \o writeKeys(a.mtpKeys) \o writeKeys(a.mtpKeysToDestroy)]

(***************************************************************************)
(* Local encryption at the level of bytes.  SHA-1 and AES-IGE are the      *)
(* terms of their arguments.                                               *)
(***************************************************************************)
\* Storage._pad_to_block
pad_to_block(size) ==
    IF size % 16 # 0 THEN size + (16 - (size % 16)) ELSE size

\* Storage.EncryptedDescriptor(size): "if size:" gives the stream a buffer
\* of four bytes to write behind
EncryptedDescriptor(size) ==
    [t |-> "EncryptedDescriptor", device |-> size # 0,
     data |-> IF size # 0 THEN <<0, 0, 0, 0>> ELSE <<>>]

\* data.stream.writeRawData(payload): without a device nothing is written
writeRawData(data, payload) ==
    IF data.device THEN [data EXCEPT !.data = @ \o payload] ELSE data

\* PrepareEncrypted: toEncrypt, resized to whole blocks, its first four
\* bytes replaced by the size
toEncrypt(data, fullSize) ==
    <<Len(data) % 256, Len(data) \div 256, 0, 0>>
        \o SubSeq(data \o [i \in 1..(fullSize - Len(data)) |-> 0], 5, fullSize)

\* PrepareEncrypted from the hash on; tgcrypto.ige256_encrypt raises
\* ValueError for data that is empty or not of whole blocks
encryptedWith(src, key) ==
    IF Len(src) = 0 \/ Len(src) % 16 # 0
    THEN [err |-> "ValueError", encrypted |-> None]
    ELSE [err |-> "ok",
          encrypted |-> [t |-> "QByteArray", size |-> 16 + Len(src),
                         key128 |-> [t |-> "sha1", of |-> src],
                         cipher |-> [t |-> "ige256", src |-> src,
                                     key |-> key]]]

\* Storage.PrepareEncrypted(data, key)
PrepareEncrypted(data, key) ==
    encryptedWith(toEncrypt(data.data, pad_to_block(Len(data.data))), key)

\* DecryptLocal accepting a declared size below the four bytes of the size
decryptedDataBelowPrefix(decrypted, fullLen, dataLen) ==
    IF dataLen > Len(decrypted) \/ dataLen <= fullLen - 16
    THEN [err |-> "TDataBadDecryptedDataSize", data |-> None]
    ELSE [err |-> "ok",
          data |-> [t |-> "EncryptedDescriptor", device |-> TRUE,
                    data |-> SubSeq(decrypted, 1, dataLen), pos |-> 4]]

\* DecryptLocal behind the hash test: dataLen is read from the first four
\* bytes, little-endian
decryptedData(decrypted, fullLen, dataLen) ==
    IF dataLen > Len(decrypted) \/ dataLen <= fullLen - 16 \/ dataLen < 4
    THEN [err |-> "TDataBadDecryptedDataSize", data |-> None]
    ELSE [err |-> "ok",
          data |-> [t |-> "EncryptedDescriptor", device |-> TRUE,
                    data |-> SubSeq(decrypted, 1, dataLen), pos |-> 4]]

\* Storage.DecryptLocal(encrypted, authKey); under another key the hash of
\* what AES gives differs from the one stored
DecryptLocal(encrypted, authKey) ==
    IF encrypted.size <= 16 \/ encrypted.size % 16 # 0
    THEN [err |-> "TDataBadEncryptedDataSize", data |-> None]
    ELSE IF \/ encrypted.cipher.key # authKey
            \/ [t |-> "sha1", of |-> encrypted.cipher.src] # encrypted.key128
    THEN [err |-> "TDataBadDecryptKey", data |-> None]
    ELSE decryptedData(encrypted.cipher.src, encrypted.size - 16,
                       encrypted.cipher.src[1]
                           + 256 * encrypted.cipher.src[2]
                           + 65536 * encrypted.cipher.src[3]
                           + 16777216 * encrypted.cipher.src[4])

(***************************************************************************)
(* Framed files at the level of bytes.                                     *)
(***************************************************************************)
\* QDataStream.__lshift__: the bytes "stream << other" writes
lshift(other) ==
    IF other.null THEN <<255, 255, 255, 255>>
    ELSE writeInt32(Len(other.data)) \o other.data

\* QDataStream.readRawData(length): the bytes read, which are the bytes
\* that remain when there are fewer than length
readRawData(s, length) == SubSeq(s.data, s.pos, after(s, length).pos - 1)

\* QDataStream.__rshift__: the array "stream >> other" reads and the stream
\* behind it; other is left as it was, a null array, when the length is cut.
\* A length from 2^31 on is more than the stream holds.
rshift(s) ==
    IF s.pos + 3 > Len(s.data)
    THEN [other |-> [t |-> "QByteArray", data |-> <<>>, null |-> TRUE],
          s |-> after(s, 4)]
    ELSE IF SubSeq(s.data, s.pos, s.pos + 3) = <<255, 255, 255, 255>>
    THEN [other |-> [t |-> "QByteArray", data |-> <<>>, null |-> TRUE],
          s |-> after(s, 4)]
    ELSE [other |-> [t |-> "QByteArray", null |-> FALSE,
                     data |-> readRawData(after(s, 4),
                                          IF readInt32(s) < 0
                                          THEN Len(s.data) + 1
                                          ELSE readInt32(s))],
          s |-> after(after(s, 4),
                      IF readInt32(s) < 0 THEN Len(s.data) + 1
                      ELSE readInt32(s))]

\* FileWriteDescriptor.__init__ on a host of byte order ByteOrder
\* (QSysInfo.Endian.ByteOrder, which is sys.byteorder)
FileWriteDescriptor(ByteOrder) ==
    [t |-> "FileWriteDescriptor", device |-> TRUE, safeData |-> <<>>,
     md5 |-> <<>>, fullSize |-> 0, ByteOrder |-> ByteOrder]

\* FileWriteDescriptor.writeData(data) behind its Expects: the length,
\* 0xFFFFFFFF for a null array, has its bytes swapped unless the host is
\* big-endian and is then laid out with to_bytes(4, "little")
FileWriteData(fd, data) ==
    LET length == IF data.null THEN <<255, 255, 255, 255>>
                  ELSE <<Len(data.data) % 256, (Len(data.data) \div 256) % 256,
                         (Len(data.data) \div 65536) % 256,
                         Len(data.data) \div 16777216>>
    IN [fd EXCEPT !.safeData = @ \o lshift(data),
                  !.md5 = @ \o (IF fd.ByteOrder # "big"
                                THEN <<length[4], length[3], length[2],
                                       length[1]>>
                                ELSE length)
                            \o data.data,
                  !.fullSize = @ + 4 + Len(data.data)]

\* FileWriteDescriptor.finish with Storage.WriteFile: the file written under
\* suffix "s"
FileFinish(fd) ==
    [t |-> "file", magic |-> TDF_MAGIC, version |-> APP_VERSION,
     data |-> fd.safeData,
     md5 |-> [t |-> "md5",
              of |-> <<fd.md5, fd.fullSize, APP_VERSION, TDF_MAGIC>>]]

(***************************************************************************)
(* The map of an account (MapData) at the level of bytes.  A FileKey and a *)
(* PeerId are the eight bytes of their 64 bits, most significant first.    *)
(***************************************************************************)
FileKey(n) == PyInt(n).low

lskType ==
    [lskUserMap |-> 0, lskDraft |-> 1, lskDraftPosition |-> 2,
     lskLegacyImages |-> 3, lskLocations |-> 4, lskLegacyStickerImages |-> 5,
     lskLegacyAudios |-> 6, lskRecentStickersOld |-> 7,
     lskBackgroundOldOld |-> 8, lskUserSettings |-> 9,
     lskRecentHashtagsAndBots |-> 10, lskStickersOld |-> 11,
     lskSavedPeersOld |-> 12, lskReportSpamStatusesOld |-> 13,
     lskSavedGifsOld |-> 14, lskSavedGifs |-> 15, lskStickersKeys |-> 16,
     lskTrustedBots |-> 17, lskFavedStickers |-> 18, lskExportSettings |-> 19,
     lskBackgroundOld |-> 20, lskSelfSerialized |-> 21, lskMasksKeys |-> 22,
     lskCustomEmojiKeys |-> 23, lskSearchSuggestions |-> 24,
     lskWebviewTokens |-> 25]

\* FileKey(1851671142505648812)
HARDCODED_SETTINGS_KEY == <<25, 178, 117, 23, 241, 228, 18, 172>>
LEGACY_SALT_SIZE == 32

\* the key names of _KEY_TO_ATTR; the attribute of "userSettingsKey" is
\* _settingsKey, every other name is the one of its attribute
KEY_TO_ATTR ==
    {"locationsKey", "trustedBotsKey", "recentStickersKeyOld",
     "installedStickersKey", "featuredStickersKey", "recentStickersKey",
     "favedStickersKey", "archivedStickersKey", "savedGifsKey",
     "installedMasksKey", "recentMasksKey", "archivedMasksKey",
     "installedCustomEmojiKey", "featuredCustomEmojiKey",
     "archivedCustomEmojiKey", "searchSuggestionsKey",
     "webviewStorageTokenBots", "webviewStorageTokenOther",
     "legacyBackgroundKeyDay", "legacyBackgroundKeyNight", "userSettingsKey",
     "recentHashtagsAndBotsKey", "exportSettingsKey"}

\* _LSK_KEY_MAP[keyType]; no names for a type that is not in it
LSK_KEY_MAP(keyType) ==
    CASE keyType = lskType.lskLocations -> <<"locationsKey">>
      [] keyType = lskType.lskTrustedBots -> <<"trustedBotsKey">>
      [] keyType = lskType.lskRecentStickersOld -> <<"recentStickersKeyOld">>
      [] keyType = lskType.lskBackgroundOldOld -> <<"legacyBackgroundKeyDay">>
      [] keyType = lskType.lskUserSettings -> <<"userSettingsKey">>
      [] keyType = lskType.lskRecentHashtagsAndBots ->
             <<"recentHashtagsAndBotsKey">>
      [] keyType = lskType.lskStickersOld -> <<"installedStickersKey">>
      [] keyType = lskType.lskFavedStickers -> <<"favedStickersKey">>
      [] keyType = lskType.lskSavedGifs -> <<"savedGifsKey">>
      [] keyType = lskType.lskExportSettings -> <<"exportSettingsKey">>
      [] keyType = lskType.lskSearchSuggestions -> <<"searchSuggestionsKey">>
      [] keyType = lskType.lskBackgroundOld ->
             <<"legacyBackgroundKeyDay", "legacyBackgroundKeyNight">>
      [] keyType = lskType.lskStickersKeys ->
             <<"installedStickersKey", "featuredStickersKey",
               "recentStickersKey", "archivedStickersKey">>
      [] keyType = lskType.lskMasksKeys ->
             <<"installedMasksKey", "recentMasksKey", "archivedMasksKey">>
      [] keyType = lskType.lskCustomEmojiKeys ->
             <<"installedCustomEmojiKey", "featuredCustomEmojiKey",
               "archivedCustomEmojiKey">>
      [] OTHER -> <<>>

LSK_SKIP_TYPES ==
    {lskType.lskReportSpamStatusesOld, lskType.lskSavedGifsOld,
     lskType.lskSavedPeersOld}

\* MapData(basePath).  A dict is the sequence of its <<key, value>> items in
\* the order of insertion.
MapData ==
    [t |-> "MapData", draftsMap |-> <<>>, draftCursorsMap |-> <<>>,
     draftsNotReadMap |-> <<>>, localKey |-> None, oldMapVersion |-> 0,
     keys |-> [k \in KEY_TO_ATTR |->
                  IF k = "userSettingsKey" THEN HARDCODED_SETTINGS_KEY
                  ELSE FileKey(0)]]

\* PeerId.Serialize behind its Expects: the reserved bit, 0x80 << 48, set
PeerIdSerialize(value) == [value EXCEPT ![2] = @ + 128]

\* PeerId.FromSerialized: the reserved bit taken off or, without it, the
\* legacy layout of a 32-bit id under a type in bits 32 to 35
PeerIdFromSerialized(serialized) ==
    IF serialized[2] >= 128 THEN [serialized EXCEPT ![2] = @ - 128]
    ELSE IF serialized[4] % 16 \in {0, 1, 2, 15}
    THEN <<0, IF serialized[4] % 16 = 15 THEN 127 ELSE serialized[4] % 16,
           0, 0>> \o SubSeq(serialized, 5, 8)
    ELSE FileKey(0)

\* MapData._writeKeyIfSet
writeKeyIfSet(keyType, keyValue) ==
    IF keyValue # FileKey(0) THEN writeInt32(keyType) \o keyValue ELSE <<>>

\* "for key in keys: stream.writeUInt64(key)", and the pairs of a draft map
RECURSIVE writeEach(_, _)
writeEach(keys, i) ==
    IF i = 0 THEN <<>> ELSE writeEach(keys, i - 1) \o keys[i]

\* MapData._writeKeyGroupIfAnySet
writeKeyGroupIfAnySet(keyType, keys) ==
    IF \E i \in DOMAIN keys : keys[i] # FileKey(0)
    THEN writeInt32(keyType) \o writeEach(keys, Len(keys))
    ELSE <<>>

\* _writeMapEntries: a draft map that is not empty
writeDrafts(keyType, drafts) ==
    IF Len(drafts) > 0
    THEN writeInt32(keyType) \o writeInt32(Len(drafts))
         \o writeEach([i \in 1..Len(drafts) |->
                          drafts[i][2] \o PeerIdSerialize(drafts[i][1])],
                      Len(drafts))
    ELSE <<>>

\* MapData._writeMapEntries: the bytes written
writeMapEntries(m) ==
    writeDrafts(lskType.lskDraft, m.draftsMap)
    \o writeDrafts(lskType.lskDraftPosition, m.draftCursorsMap)
    \o writeKeyIfSet(lskType.lskLocations, m.keys["locationsKey"])
    \o writeKeyIfSet(lskType.lskTrustedBots, m.keys["trustedBotsKey"])
    \o writeKeyIfSet(lskType.lskRecentStickersOld,
                     m.keys["recentStickersKeyOld"])
    \o writeKeyGroupIfAnySet(lskType.lskStickersKeys,
           <<m.keys["installedStickersKey"], m.keys["featuredStickersKey"],
             m.keys["recentStickersKey"], m.keys["archivedStickersKey"]>>)
    \o writeKeyIfSet(lskType.lskFavedStickers, m.keys["favedStickersKey"])
    \o writeKeyIfSet(lskType.lskSavedGifs, m.keys["savedGifsKey"])
    \o writeKeyIfSet(lskType.lskUserSettings, m.keys["userSettingsKey"])
    \o writeKeyIfSet(lskType.lskRecentHashtagsAndBots,
                     m.keys["recentHashtagsAndBotsKey"])
    \o writeKeyIfSet(lskType.lskExportSettings, m.keys["exportSettingsKey"])
    \o writeKeyGroupIfAnySet(lskType.lskMasksKeys,
           <<m.keys["installedMasksKey"], m.keys["recentMasksKey"],
             m.keys["archivedMasksKey"]>>)
    \o writeKeyGroupIfAnySet(lskType.lskCustomEmojiKeys,
           <<m.keys["installedCustomEmojiKey"],
             m.keys["featuredCustomEmojiKey"],
             m.keys["archivedCustomEmojiKey"]>>)
    \o writeKeyIfSet(lskType.lskSearchSuggestions,
                     m.keys["searchSuggestionsKey"])
    \o writeKeyGroupIfAnySet(lskType.lskWebviewTokens,
           <<m.keys["webviewStorageTokenBots"],
             m.keys["webviewStorageTokenOther"]>>)

\* MapData._groupKeySize
groupKeySize(count, keys) ==
    IF \E i \in DOMAIN keys : keys[i] # FileKey(0) THEN 4 + count * 8 ELSE 0

\* MapData._calculateMapSize
calculateMapSize(m) ==
    (IF Len(m.draftsMap) > 0 THEN 4 * 2 + Len(m.draftsMap) * 8 * 2 ELSE 0)
    + (IF Len(m.draftCursorsMap) > 0
       THEN 4 * 2 + Len(m.draftCursorsMap) * 8 * 2 ELSE 0)
    + (4 + 8) * Cardinality(
          {k \in {"locationsKey", "trustedBotsKey", "recentStickersKeyOld",
                  "favedStickersKey", "savedGifsKey", "userSettingsKey",
                  "recentHashtagsAndBotsKey", "exportSettingsKey",
                  "searchSuggestionsKey"} : m.keys[k] # FileKey(0)})
    + groupKeySize(4, <<m.keys["installedStickersKey"],
                        m.keys["featuredStickersKey"],
                        m.keys["recentStickersKey"],
                        m.keys["archivedStickersKey"]>>)
    + groupKeySize(3, <<m.keys["installedMasksKey"], m.keys["recentMasksKey"],
                        m.keys["archivedMasksKey"]>>)
    + groupKeySize(3, <<m.keys["installedCustomEmojiKey"],
                        m.keys["featuredCustomEmojiKey"],
                        m.keys["archivedCustomEmojiKey"]>>)
    + groupKeySize(2, <<m.keys["webviewStorageTokenBots"],
                        m.keys["webviewStorageTokenOther"]>>)

\* MapData.prepareToWrite
prepareToWrite(m) ==
    writeRawData(EncryptedDescriptor(calculateMapSize(m)), writeMapEntries(m))

\* QDataStream.readUInt32 of a value below 2^31; a value from 2^31 on, which
\* is no key type and more than any stream holds, is negative here
readUInt32(s) == readInt32(s)

\* "d[k] = v" on a dict
setitem(d, k, v) ==
    IF \E i \in DOMAIN d : d[i][1] = k
    THEN [i \in DOMAIN d |-> IF d[i][1] = k THEN <<k, v>> ELSE d[i]]
    ELSE Append(d, <<k, v>>)

\* _readMapEntry: the loops of lskDraft and, with cursor, lskDraftPosition.
\* Once the stream has failed the entries read are dropped with the
\* exception that follows the record.
RECURSIVE readDrafts(_, _, _)
readDrafts(p, count, cursor) ==
    IF count = 0 \/ ~p.s.ok THEN p
    ELSE readDrafts(
             IF cursor
             THEN [p EXCEPT !.s = after(after(@, 8), 8),
                      !.draftCursorsMap =
                          setitem(@, PeerIdFromSerialized(
                                         readUInt64(after(p.s, 8)).low),
                                  readUInt64(p.s).low)]
             ELSE [p EXCEPT !.s = after(after(@, 8), 8),
                      !.draftsMap =
                          setitem(@, PeerIdFromSerialized(
                                         readUInt64(after(p.s, 8)).low),
                                  readUInt64(p.s).low),
                      !.draftsNotReadMap =
                          setitem(@, PeerIdFromSerialized(
                                         readUInt64(after(p.s, 8)).low),
                                  TRUE)],
             count - 1, cursor)

\* _readMapEntry: "for key_name in self._LSK_KEY_MAP[keyType]"
RECURSIVE readKeysNamed(_, _, _)
readKeysNamed(p, names, i) ==
    IF i > Len(names) THEN p
    ELSE readKeysNamed([p EXCEPT !.s = after(@, 8),
                                 !.keys[names[i]] = readUInt64(p.s).low],
                       names, i + 1)

\* MapData._readMapEntry behind the key type: the records read so far and
\* whether the loop goes on
readMapEntry(keyType, p) ==
    IF keyType \in {lskType.lskDraft, lskType.lskDraftPosition}
    THEN [p |-> readDrafts([p EXCEPT !.s = after(@, 4)], readUInt32(p.s),
                           keyType = lskType.lskDraftPosition),
          go |-> TRUE]
    ELSE IF keyType = lskType.lskSelfSerialized
    THEN [p |-> [p EXCEPT !.s = rshift(@).s], go |-> TRUE]
    ELSE IF keyType \in {lskType.lskLegacyImages,
                         lskType.lskLegacyStickerImages,
                         lskType.lskLegacyAudios}
    THEN [p |-> [p EXCEPT !.s =
                    IF readUInt32(p.s) \in 0..Len(p.s.data)
                    THEN after(after(@, 4), (8 + 8 + 8 + 4) * readUInt32(p.s))
                    ELSE after(@, Len(p.s.data) + 1)],
          go |-> TRUE]
    ELSE IF LSK_KEY_MAP(keyType) # <<>>
    THEN [p |-> readKeysNamed(p, LSK_KEY_MAP(keyType), 1), go |-> TRUE]
    ELSE IF keyType \in LSK_SKIP_TYPES
    THEN [p |-> [p EXCEPT !.s = after(@, 8)], go |-> TRUE]
    ELSE IF keyType = lskType.lskWebviewTokens
    THEN [p |-> p, go |-> FALSE]
    ELSE [p |-> p, go |-> TRUE]

\* the loop of MapData._parseMapStream
RECURSIVE parseMapEntries(_)
parseMapEntries(p) ==
    IF p.s.pos > Len(p.s.data) THEN p
    ELSE IF ~readMapEntry(readUInt32(p.s), [p EXCEPT !.s = after(@, 4)]).go
    THEN readMapEntry(readUInt32(p.s), [p EXCEPT !.s = after(@, 4)]).p
    ELSE IF ~readMapEntry(readUInt32(p.s),
                          [p EXCEPT !.s = after(@, 4)]).p.s.ok
    THEN [p EXCEPT !.err = "QDataStreamFailed"]
    ELSE parseMapEntries(
             readMapEntry(readUInt32(p.s), [p EXCEPT !.s = after(@, 4)]).p)

\* MapData._applyParsedKeys, or the exception of the loop
applyParsedKeys(m, localKey, mapVersion, p) ==
    IF p.err # "ok" THEN [err |-> p.err, m |-> m]
    ELSE [err |-> "ok",
          m |-> [m EXCEPT !.localKey = localKey,
                          !.draftsMap = p.draftsMap,
                          !.draftCursorsMap = p.draftCursorsMap,
                          !.draftsNotReadMap = p.draftsNotReadMap,
                          !.keys = p.keys,
                          !.oldMapVersion = mapVersion]]

\* MapData._parseMapStream(map, localKey, mapVersion); map.stream stands
\* behind the four bytes of the size
parseMapStream(m, map, localKey, mapVersion) ==
    applyParsedKeys(m, localKey, mapVersion,
        parseMapEntries(
            [s |-> [data |-> map.data, pos |-> map.pos + 1, ok |-> TRUE],
             draftsMap |-> <<>>, draftCursorsMap |-> <<>>,
             draftsNotReadMap |-> <<>>,
             keys |-> [k \in KEY_TO_ATTR |-> FileKey(0)], err |-> "ok"]))

\* Storage.CreateLegacyLocalKey(salt, passcode): PBKDF2-HMAC-SHA512 of the
\* passcode under the salt
CreateLegacyLocalKey(salt, passcode) ==
    [t |-> "key", kdf |-> "pbkdf2-legacy", salt |-> salt, pass |-> passcode,
     iter |-> IF isEmpty(passcode) THEN PBKDF2_ITERATIONS_EMPTY
              ELSE PBKDF2_ITERATIONS]

\* MapData.read behind the local key: the map decrypted and parsed
readMapUnder(m, mapData, localKey) ==
    IF DecryptLocal(mapData.data[3], localKey).err # "ok"
    THEN [err |-> "TDataReadMapDataFailed", m |-> m]
    ELSE parseMapStream(m, DecryptLocal(mapData.data[3], localKey).data,
                        localKey, mapData.version)

\* MapData.read, "if not localKey": the key kept in the file under the
\* legacy passcode
readLegacyKey(m, mapData, legacyPasscode) ==
    IF mapData.data[1].size # LEGACY_SALT_SIZE
    THEN [err |-> "TDataReadMapDataFailed", m |-> m]
    ELSE IF DecryptLocal(mapData.data[2],
                CreateLegacyLocalKey(mapData.data[1], legacyPasscode)).err
            # "ok"
    THEN [err |-> "TDataReadMapDataIncorrectPasscode", m |-> m]
    ELSE \* keyData.stream stands behind the four bytes of the size
         LET keyData == DecryptLocal(mapData.data[2],
                 CreateLegacyLocalKey(mapData.data[1], legacyPasscode)).data
             localKey == FromStream([data |-> keyData.data,
                                     pos |-> keyData.pos + 1, ok |-> TRUE], 0)
         IN IF localKey.err # "ok" THEN [err |-> localKey.err, m |-> m]
            ELSE readMapUnder(m, mapData, localKey.key)

\* MapData.read(localKey, legacyPasscode), mapData being what
\* Storage.ReadFile("map", basePath) gave; an OverflowError of ReadFile is
\* no OpenTeleException and passes through
MapDataRead(m, mapData, localKey, legacyPasscode) ==
    IF mapData.err = "OverflowError" THEN [err |-> mapData.err, m |-> m]
    ELSE IF mapData.err # "ok" THEN [err |-> "TDataReadMapDataFailed", m |-> m]
    ELSE IF Len(mapData.data) < 3 THEN [err |-> "QDataStreamFailed", m |-> m]
    ELSE IF localKey = None THEN readLegacyKey(m, mapData, legacyPasscode)
    ELSE readMapUnder(m, mapData, localKey)

(***************************************************************************)
(* The MTP configuration at the level of bytes.  A dict (DcOptions._data)  *)
(* is the sequence of its <<key, value>> items.                            *)
(***************************************************************************)
MAX_IP_SIZE == 45
MAX_SECRET_SIZE == 32
MAX_SERIALIZED_DC_ID == 1000
kDcShift == 10000

\* the tables of BuiltInDc; a str is the sequence of its code points
BuiltInDc ==
    [kBuiltInDcs |->
         <<[id |-> 1, port |-> 443, ip |->
                <<49, 52, 57, 46, 49, 53, 52, 46, 49, 55, 53, 46, 53, 48>>],
           [id |-> 2, port |-> 443, ip |->
                <<49, 52, 57, 46, 49, 53, 52, 46, 49, 54, 55, 46, 53, 49>>],
           [id |-> 2, port |-> 443, ip |->
                <<57, 53, 46, 49, 54, 49, 46, 55, 54, 46, 49, 48, 48>>],
           [id |-> 3, port |-> 443, ip |->
                <<49, 52, 57, 46, 49, 53, 52, 46, 49, 55, 53, 46, 49, 48,
                48>>],
           [id |-> 4, port |-> 443, ip |->
                <<49, 52, 57, 46, 49, 53, 52, 46, 49, 54, 55, 46, 57, 49>>],
           [id |-> 5, port |-> 443, ip |->
                <<49, 52, 57, 46, 49, 53, 52, 46, 49, 55, 49, 46, 53>>]>>,
     kBuiltInDcsIPv6 |->
         <<[id |-> 1, port |-> 443, ip |->
                <<50, 48, 48, 49, 58, 48, 98, 50, 56, 58, 102, 50, 51, 100,
                58, 102, 48, 48, 49, 58, 48, 48, 48, 48, 58, 48, 48, 48, 48,
                58, 48, 48, 48, 48, 58, 48, 48, 48, 97>>],
           [id |-> 2, port |-> 443, ip |->
                <<50, 48, 48, 49, 58, 48, 54, 55, 99, 58, 48, 52, 101, 56,
                58, 102, 48, 48, 50, 58, 48, 48, 48, 48, 58, 48, 48, 48, 48,
                58, 48, 48, 48, 48, 58, 48, 48, 48, 97>>],
           [id |-> 3, port |-> 443, ip |->
                <<50, 48, 48, 49, 58, 48, 98, 50, 56, 58, 102, 50, 51, 100,
                58, 102, 48, 48, 51, 58, 48, 48, 48, 48, 58, 48, 48, 48, 48,
                58, 48, 48, 48, 48, 58, 48, 48, 48, 97>>],
           [id |-> 4, port |-> 443, ip |->
                <<50, 48, 48, 49, 58, 48, 54, 55, 99, 58, 48, 52, 101, 56,
                58, 102, 48, 48, 52, 58, 48, 48, 48, 48, 58, 48, 48, 48, 48,
                58, 48, 48, 48, 48, 58, 48, 48, 48, 97>>],
           [id |-> 5, port |-> 443, ip |->
                <<50, 48, 48, 49, 58, 48, 98, 50, 56, 58, 102, 50, 51, 102,
                58, 102, 48, 48, 53, 58, 48, 48, 48, 48, 58, 48, 48, 48, 48,
                58, 48, 48, 48, 48, 58, 48, 48, 48, 97>>]>>,
     kBuiltInDcsTest |->
         <<[id |-> 1, port |-> 443, ip |->
                <<49, 52, 57, 46, 49, 53, 52, 46, 49, 55, 53, 46, 49, 48>>],
           [id |-> 2, port |-> 443, ip |->
                <<49, 52, 57, 46, 49, 53, 52, 46, 49, 54, 55, 46, 52, 48>>],
           [id |-> 3, port |-> 443, ip |->
                <<49, 52, 57, 46, 49, 53, 52, 46, 49, 55, 53, 46, 49, 49,
                55>>]>>,
     kBuiltInDcsIPv6Test |->
         <<[id |-> 1, port |-> 443, ip |->
                <<50, 48, 48, 49, 58, 48, 98, 50, 56, 58, 102, 50, 51, 100,
                58, 102, 48, 48, 49, 58, 48, 48, 48, 48, 58, 48, 48, 48, 48,
                58, 48, 48, 48, 48, 58, 48, 48, 48, 101>>],
           [id |-> 2, port |-> 443, ip |->
                <<50, 48, 48, 49, 58, 48, 54, 55, 99, 58, 48, 52, 101, 56,
                58, 102, 48, 48, 50, 58, 48, 48, 48, 48, 58, 48, 48, 48, 48,
                58, 48, 48, 48, 48, 58, 48, 48, 48, 101>>],
           [id |-> 3, port |-> 443, ip |->
                <<50, 48, 48, 49, 58, 48, 98, 50, 56, 58, 102, 50, 51, 100,
                58, 102, 48, 48, 51, 58, 48, 48, 48, 48, 58, 48, 48, 48, 48,
                58, 48, 48, 48, 48, 58, 48, 48, 48, 101>>]>>]

\* MTP.DcOptions.Flag
Flag ==
    [f_ipv6 |-> 1, f_media_only |-> 2, f_tcpo_only |-> 4, f_cdn |-> 8,
     f_static |-> 16, f_secret |-> 1024]

\* "flags & flag" is not zero, flag being one bit and flags not negative
hasFlag(flags, flag) == (flags \div flag) % 2 = 1

\* "d[k]" of a dict that has the key k
getitem(d, k) == d[CHOOSE i \in DOMAIN d : d[i][1] = k][2]

\* DcOptions.applyOneGuarded(id, flags, ip, port, secret): the "continue"
\* of the search for the address ends no more than the search, and the
\* Endpoint is made with bytes() for its secret
applyOneGuarded(data, id, flags, ip, port, secret) ==
    setitem(data, id,
            Append(IF \E i \in DOMAIN data : data[i][1] = id
                   THEN getitem(data, id) ELSE <<>>,
                   [id |-> id, flags |-> flags, ip |-> ip, port |-> port,
                    secret |-> <<>>]))

\* addToData of DcOptions.constructFromBuiltIn
RECURSIVE addToData(_, _, _, _)
addToData(data, dcs, flags, i) ==
    IF i > Len(dcs) THEN data
    ELSE addToData(applyOneGuarded(data, dcs[i].id, flags, dcs[i].ip,
                                   dcs[i].port, <<>>),
                   dcs, flags, i + 1)

\* DcOptions(enviroment): constructFromBuiltIn on an empty _data
constructFromBuiltIn(enviroment) ==
    IF enviroment # "Production"
    THEN addToData(addToData(<<>>, BuiltInDc.kBuiltInDcsTest,
                             Flag.f_static, 1),
                   BuiltInDc.kBuiltInDcsIPv6Test,
                   Flag.f_static + Flag.f_ipv6, 1)
    ELSE addToData(addToData(<<>>, BuiltInDc.kBuiltInDcs, Flag.f_static, 1),
                   BuiltInDc.kBuiltInDcsIPv6, Flag.f_static + Flag.f_ipv6, 1)

\* ConfigFields() in the order of Config._SERIALIZED_FIELDS: the name, the
\* type and the value of each field
ConfigFields ==
    <<[name |-> "chatSizeMax", type |-> "int", v |-> 200],
      [name |-> "megagroupSizeMax", type |-> "int", v |-> 10000],
      [name |-> "forwardedCountMax", type |-> "int", v |-> 100],
      [name |-> "onlineUpdatePeriod", type |-> "int", v |-> 120000],
      [name |-> "offlineBlurTimeout", type |-> "int", v |-> 5000],
      [name |-> "offlineIdleTimeout", type |-> "int", v |-> 30000],
      [name |-> "onlineFocusTimeout", type |-> "int", v |-> 1000],
      [name |-> "onlineCloudTimeout", type |-> "int", v |-> 300000],
      [name |-> "notifyCloudDelay", type |-> "int", v |-> 30000],
      [name |-> "notifyDefaultDelay", type |-> "int", v |-> 1500],
      [name |-> "savedGifsLimit", type |-> "int", v |-> 200],
      [name |-> "editTimeLimit", type |-> "int", v |-> 172800],
      [name |-> "revokeTimeLimit", type |-> "int", v |-> 172800],
      [name |-> "revokePrivateTimeLimit", type |-> "int", v |-> 172800],
      [name |-> "revokePrivateInbox", type |-> "bool", v |-> FALSE],
      [name |-> "stickersRecentLimit", type |-> "int", v |-> 30],
      [name |-> "stickersFavedLimit", type |-> "int", v |-> 5],
      [name |-> "pinnedDialogsCountMax", type |-> "int", v |-> 5],
      [name |-> "pinnedDialogsInFolderMax", type |-> "int", v |-> 100],
      [name |-> "internalLinksDomain", type |-> "str",
       v |-> <<104, 116, 116, 112, 115, 58, 47, 47, 116, 46, 109, 101, 47>>],
      [name |-> "channelsReadMediaPeriod", type |-> "int", v |-> 604800],
      [name |-> "callReceiveTimeoutMs", type |-> "int", v |-> 20000],
      [name |-> "callRingTimeoutMs", type |-> "int", v |-> 90000],
      [name |-> "callConnectTimeoutMs", type |-> "int", v |-> 30000],
      [name |-> "callPacketTimeoutMs", type |-> "int", v |-> 10000],
      [name |-> "webFileDcId", type |-> "int", v |-> 4],
      [name |-> "txtDomainString", type |-> "str", v |-> <<>>],
      [name |-> "phoneCallsEnabled", type |-> "bool", v |-> TRUE],
      [name |-> "blockedMode", type |-> "bool", v |-> FALSE],
      [name |-> "captionLengthMax", type |-> "int", v |-> 1024]>>

\* MTP.Config(enviroment)
Config(enviroment) ==
    [t |-> "Config", enviroment |-> enviroment,
     data |-> constructFromBuiltIn(enviroment),
     fields |-> [i \in DOMAIN ConfigFields |->
                    IF ConfigFields[i].name = "webFileDcId"
                    THEN [ConfigFields[i] EXCEPT
                             !.v = IF enviroment # "Production" THEN 2
                                   ELSE 4]
                    ELSE IF ConfigFields[i].name = "txtDomainString"
                    THEN [ConfigFields[i] EXCEPT
                             !.v = IF enviroment # "Production"
                                   THEN <<116, 97, 112, 118, 51, 46, 115,
                                          116, 101, 108, 46, 99, 111, 109>>
                                   ELSE <<97, 112, 118, 51, 46, 115, 116,
                                          101, 108, 46, 99, 111, 109>>]
                    ELSE ConfigFields[i]]]

\* DcOptions.Serialize: the endpoints of the DCs kept, in the order of
\* _data
RECURSIVE filtered(_, _)
filtered(data, i) ==
    IF i = 0 THEN <<>>
    ELSE filtered(data, i - 1)
         \o (IF data[i][1] % kDcShift <= MAX_SERIALIZED_DC_ID
             THEN data[i][2] ELSE <<>>)

\* DcOptions.Serialize: what is written for each endpoint
RECURSIVE writeEndpoints(_, _)
writeEndpoints(endpoints, i) ==
    IF i = 0 THEN <<>>
    ELSE writeEndpoints(endpoints, i - 1)
         \o writeInt32(endpoints[i].id) \o writeInt32(endpoints[i].flags)
         \o writeInt32(Len(endpoints[i].ip)) \o endpoints[i].ip
         \o writeInt32(Len(endpoints[i].secret)) \o endpoints[i].secret

\* DcOptions.Serialize
DcOptionsSerialize(data) ==
    writeInt32(-2) \o writeInt32(Len(filtered(data, Len(data))))
    \o writeEndpoints(filtered(data, Len(data)),
                      Len(filtered(data, Len(data))))
    \o writeInt32(0)

\* QDataStream.writeQString(s): the length in bytes and UTF-16, big-endian,
\* of code points below 0x10000
RECURSIVE writeQString(_, _)
writeQString(s, i) ==
    IF i = 0 THEN writeInt32(2 * Len(s))
    ELSE writeQString(s, i - 1) \o <<s[i] \div 256, s[i] % 256>>

\* Config._write_field for each name of _SERIALIZED_FIELDS
RECURSIVE writeFields(_, _)
writeFields(fields, i) ==
    IF i = 0 THEN <<>>
    ELSE writeFields(fields, i - 1)
         \o (IF fields[i].type = "bool"
             THEN writeInt32(IF fields[i].v THEN 1 ELSE 0)
             ELSE IF fields[i].type = "int" THEN writeInt32(fields[i].v)
             ELSE writeQString(fields[i].v, Len(fields[i].v)))

\* MTP.Config.Serialize
ConfigSerialize(config) ==
    writeInt32(1)
    \o writeInt32(IF config.enviroment # "Production" THEN 1 ELSE 0)
    \o lshift([t |-> "QByteArray", null |-> FALSE,
               data |-> DcOptionsSerialize(config.data)])
    \o writeFields(config.fields, Len(config.fields))

\* the loop of DcOptions.constructFromSerialized; the Expects on the sizes
\* come before the one on the status of the stream
RECURSIVE readEndpoints(_, _, _, _)
readEndpoints(data, s, count, version) ==
    IF count <= 0 THEN [err |-> "ok", data |-> data]
    ELSE LET ipSize == readInt32(after(s, 12))
             ip == SubSeq(s.data, after(s, 16).pos,
                          after(after(s, 16), ipSize).pos - 1)
             behindIp == after(after(s, 16), ipSize)
             secretSize == IF version > 0 THEN readInt32(behindIp) ELSE 0
             behind == IF version > 0
                       THEN after(after(behindIp, 4), secretSize)
                       ELSE behindIp
         IN IF ipSize <= 0 \/ ipSize > MAX_IP_SIZE
            THEN [err |-> "TDataBadConfigData", data |-> data]
            ELSE IF \E i \in DOMAIN ip : ip[i] >= 128
            THEN [err |-> "UnicodeDecodeError", data |-> data]
            ELSE IF secretSize < 0 \/ secretSize > MAX_SECRET_SIZE
            THEN [err |-> "TDataBadConfigData", data |-> data]
            ELSE IF ~behind.ok
            THEN [err |-> "QDataStreamFailed", data |-> data]
            ELSE readEndpoints(
                     applyOneGuarded(data, readInt32(s),
                         readInt32(after(s, 4)), ip, readInt32(after(s, 8)),
                         SubSeq(s.data, after(behindIp, 4).pos,
                                behind.pos - 1)),
                     behind, count - 1, version)

\* DcOptions.constructFromSerialized(serialized): _data is cleared and
\* filled; a first value that is not negative is the count of the format
\* without version
constructFromSerialized(serialized) ==
    IF readInt32(StreamOn(serialized)) < 0
    THEN readEndpoints(<<>>, after(StreamOn(serialized), 8),
                       readInt32(after(StreamOn(serialized), 4)),
                       -readInt32(StreamOn(serialized)))
    ELSE readEndpoints(<<>>, after(StreamOn(serialized), 4),
                       readInt32(StreamOn(serialized)), 0)

\* QDataStream.readQString: the str read and the stream behind it; a
\* length from 2^31 on is more than the stream holds, and
\* bytes.decode("utf-16-be") refuses an odd number of bytes
readQString(s) ==
    IF s.pos + 3 > Len(s.data) \/ SubSeq(s.data, s.pos, s.pos + 3)
                                      = <<255, 255, 255, 255>>
    THEN [err |-> "ok", v |-> <<>>, s |-> after(s, 4)]
    ELSE LET behind == after(after(s, 4),
                             IF readInt32(s) < 0 THEN Len(s.data) + 1
                             ELSE readInt32(s))
             size == behind.pos - (s.pos + 4)
         IN [err |-> IF size % 2 = 1 THEN "UnicodeDecodeError" ELSE "ok",
             v |-> [i \in 1..(size \div 2) |->
                       256 * s.data[s.pos + 2 + 2 * i]
                       + s.data[s.pos + 3 + 2 * i]],
             s |-> behind]

\* Config.FromSerialized: Config._read_field for each name of
\* _SERIALIZED_FIELDS, by the type of the field's default
RECURSIVE readFields(_, _, _)
readFields(fields, s, i) ==
    IF i > Len(fields) THEN [err |-> "ok", fields |-> fields, s |-> s]
    ELSE IF fields[i].type = "str"
    THEN IF readQString(s).err # "ok"
         THEN [err |-> readQString(s).err, fields |-> fields, s |-> s]
         ELSE readFields([fields EXCEPT ![i].v = readQString(s).v],
                         readQString(s).s, i + 1)
    ELSE readFields([fields EXCEPT ![i].v =
                        IF fields[i].type = "bool" THEN readInt32(s) = 1
                        ELSE readInt32(s)],
                    after(s, 4), i + 1)

\* Config.FromSerialized behind the environment: the options array, the
\* fields, the status of the stream, the options
readConfig(result, s) ==
    LET read == readFields(result.fields, rshift(s).s, 1)
        options == constructFromSerialized(rshift(s).other.data)
    IN IF read.err # "ok" THEN [err |-> read.err, config |-> None]
       ELSE IF ~read.s.ok THEN [err |-> "QDataStreamFailed", config |-> None]
       ELSE IF options.err # "ok" THEN [err |-> options.err, config |-> None]
       ELSE [err |-> "ok",
             config |-> [result EXCEPT !.fields = read.fields,
                                       !.data = options.data]]

\* MTP.Config.FromSerialized(serialized); MTP.Environment(n) raises
\* ValueError for another n than 0 and 1
ConfigFromSerialized(serialized) ==
    IF readInt32(StreamOn(serialized)) # 1
    THEN [err |-> "OpenTeleException", config |-> None]
    ELSE IF readInt32(after(StreamOn(serialized), 4)) \notin {0, 1}
    THEN [err |-> "ValueError", config |-> None]
    ELSE readConfig(
             Config(IF readInt32(after(StreamOn(serialized), 4)) = 1
                    THEN "Test" ELSE "Production"),
             after(StreamOn(serialized), 8))

\* MTP.Config.endpoints(dcId): the buckets, results[address][protocol], or
\* the KeyError of "self._dcOptions._data[dcId]"
endpoints(config, dcId) ==
    IF ~\E i \in DOMAIN config.data : config.data[i][1] = dcId
    THEN [err |-> "KeyError", results |-> None]
    ELSE LET matching == SelectSeq(getitem(config.data, dcId),
                             LAMBDA endpoint :
                                 dcId = 0 \/ endpoint.id = dcId)
             of(address, http) ==
                 SelectSeq(matching,
                     LAMBDA endpoint :
                         /\ hasFlag(endpoint.flags, Flag.f_ipv6)
                                = (address = "IPv6")
                         /\ http => ~(\/ hasFlag(endpoint.flags,
                                                 Flag.f_tcpo_only)
                                      \/ hasFlag(endpoint.flags,
                                                 Flag.f_secret)))
         IN [err |-> "ok",
             results |-> [IPv4 |-> [Tcp |-> of("IPv4", FALSE),
                                    Http |-> of("IPv4", TRUE)],
                          IPv6 |-> [Tcp |-> of("IPv6", FALSE),
                                    Http |-> of("IPv6", TRUE)]]]

(***************************************************************************)
(* State.                                                                  *)
(***************************************************************************)
VARIABLES
    disk,               \* the tdata directory: key files and account data
    td,                 \* the TDesktop client of the program, None before
    heap,               \* the Account objects of the client
    kPerformanceMode,   \* TDesktop.kPerformanceMode
    client,             \* the Telethon client of the program
    last,               \* the last operation: arguments, exception, client before
    steps               \* operations performed

vars == <<disk, td, heap, kPerformanceMode, client, last, steps>>

EmptyDir == [map |-> NoFile, mtp |-> NoFile, cfg |-> NoFile]
EmptyDisk == [key |-> [kf \in KeyFiles |-> NoFile],
              dir |-> [n \in DataNames |-> EmptyDir]]

NoOp == [op |-> "none", err |-> "ok", arg |-> <<>>, pre |-> None]

(***************************************************************************)
(* A tdata directory as Telegram Desktop writes it.                        *)
(***************************************************************************)
\* the directory name of account index under a key file
DataNameOf(keyFile, index) ==
    ToFilePart(ComputeDataNameKey(ComposeDataString(keyFile, index)))

\* account index of an official directory: user 101 + index at DC 1 + index
OfficialDir(index, localKey) ==
    [map |-> MapFile(localKey),
     mtp |-> MtpFile([t |-> "auth", UserId |-> 101 + index,
                      MainDcId |-> 1 + index,
                      mtpKeys |-> <<[dcId |-> 1 + index, key |-> 11 + index]>>,
                      mtpKeysToDestroy |-> <<>>], localKey),
     cfg |-> ConfigFile(TRUE, BuiltInDcs, localKey)]

OfficialLocalKey ==
    CreateLocalKey(RandomGenerate(LocalEncryptSaltSize, "official", 2),
                   RandomGenerate(kSize, "official", 1))

OfficialSalt == RandomGenerate(LocalEncryptSaltSize, "official", 3)

OfficialTData(passcode, indices, active_index) ==
    [key |-> [kf \in KeyFiles |->
                 IF kf = kDefaultKeyFile
                 THEN KeyFile(OfficialSalt,
                              Sealed(<<OfficialLocalKey>>,
                                     CreateLocalKey(OfficialSalt,
                                                    encode_ascii(passcode).bytes)),
                              indices, active_index, OfficialLocalKey)
                 ELSE NoFile],
     dir |-> [n \in DataNames |->
                 IF \E i \in 1..Len(indices) :
                        n = DataNameOf(kDefaultKeyFile, indices[i])
                 THEN OfficialDir(CHOOSE x \in 0..(kMaxAccounts - 1) :
                                      n = DataNameOf(kDefaultKeyFile, x),
                                  OfficialLocalKey)
                 ELSE EmptyDir]]

(***************************************************************************)
(* Damage done to the directory from outside the program.                  *)
(***************************************************************************)
BadMd5(f) == [f EXCEPT !.md5 = [t |-> "md5", of |-> <<>>]]

DamagedDir(d, kind) ==
    IF kind = "nomap" THEN [d EXCEPT !.map = NoFile]
    ELSE IF kind = "badmtp" THEN [d EXCEPT !.mtp = BadMd5(d.mtp)]
    ELSE LET auth == d.mtp.data[1].plain[2]
         IN [d EXCEPT !.mtp =
                MtpFile([auth EXCEPT !.mtpKeys =
                            SelectSeq(auth.mtpKeys,
                                      LAMBDA k : k.dcId # auth.MainDcId)],
                        d.mtp.data[1].key)]

DamagedKeyFile(f, kind) ==
    IF kind = "magic" THEN [f EXCEPT !.magic = "XXXX"]
    ELSE IF kind = "md5" THEN BadMd5(f)
    ELSE NoFile

(***************************************************************************)
(* Operations on the client.                                               *)
(***************************************************************************)
\* td = TDesktop(Dir, passcode = passcode): the client exists only if the
\* constructor returns
Construct(passcode) ==
    /\ steps < MaxSteps
    /\ \E pc \in {IF passcode.given THEN passcode.v ELSE <<>>} :
       \E r \in {IF encode_ascii(pc).ok
                 THEN LoadTDataOf(NewTDesktop(Dir, encode_ascii(pc).bytes, pc,
                                              kDefaultKeyFile),
                                  EmptyHeap, disk, kPerformanceMode, NotGiven)
                 ELSE Raised(td, heap, "UnicodeEncodeError")} :
           /\ td' = IF r.err = "ok" THEN r.td ELSE td
           /\ heap' = IF r.err = "ok" THEN r.heap ELSE heap
           /\ last' = [op |-> "Construct", err |-> r.err, arg |-> pc,
                       pre |-> None]
    /\ steps' = steps + 1
    /\ UNCHANGED <<disk, kPerformanceMode, client>>

\* td.LoadTData(passcode = passcode)
LoadTData(passcode) ==
    /\ steps < MaxSteps
    /\ td # None
    /\ \E r \in {LoadTDataOf(td, heap, disk, kPerformanceMode, passcode)} :
           /\ td' = r.td
           /\ heap' = r.heap
           /\ last' = [op |-> "LoadTData", err |-> r.err,
                       arg |-> IF passcode.given THEN passcode.v
                               ELSE td.passcode,
                       pre |-> td]
    /\ steps' = steps + 1
    /\ UNCHANGED <<disk, kPerformanceMode, client>>

\* the data of one account is damaged
TamperAccount(index, kind) ==
    /\ steps < MaxSteps
    /\ ReadCandidate(disk.dir[DataNameOf(kDefaultKeyFile, index)].mtp) = "ok"
    /\ disk' = [disk EXCEPT !.dir[DataNameOf(kDefaultKeyFile, index)] =
                                DamagedDir(@, kind)]
    /\ last' = [op |-> "Tamper", err |-> "ok", arg |-> <<>>, pre |-> None]
    /\ steps' = steps + 1
    /\ UNCHANGED <<td, heap, kPerformanceMode, client>>

\* the key file is damaged
TamperKeyFile(kind) ==
    /\ steps < MaxSteps
    /\ ReadCandidate(disk.key[kDefaultKeyFile]) = "ok"
    /\ disk' = [disk EXCEPT !.key[kDefaultKeyFile] = DamagedKeyFile(@, kind)]
    /\ last' = [op |-> "Tamper", err |-> "ok", arg |-> <<>>, pre |-> None]
    /\ steps' = steps + 1
    /\ UNCHANGED <<td, heap, kPerformanceMode, client>>

PasscodeArgs == {Given(p) : p \in Passcodes} \cup {NotGiven}

(***************************************************************************)
(* SpecLoad: clients constructed on, and reloaded from, a directory that   *)
(* Telegram Desktop wrote and that may be damaged in between.              *)
(***************************************************************************)
InitLoad ==
    /\ \E passcode \in AsciiPasscodes, active_index \in 0..1,
          indices \in {<<0>>, <<0, 1>>, <<1, 2>>, <<0, 1, 2>>, <<0, 0, 0, 0>>} :
           disk = OfficialTData(passcode, indices, active_index)
    /\ td = None
    /\ heap = EmptyHeap
    /\ kPerformanceMode \in BOOLEAN
    /\ client = None
    /\ last = NoOp
    /\ steps = 0

NextLoad ==
    \/ \E passcode \in PasscodeArgs : Construct(passcode)
    \/ \E passcode \in PasscodeArgs : LoadTData(passcode)
    \/ \E index \in 0..(kMaxAccounts - 1), kind \in {"nomap", "badmtp", "nomainkey"} :
           TamperAccount(index, kind)
    \/ \E kind \in {"magic", "md5", "gone"} : TamperKeyFile(kind)

SpecLoad == InitLoad /\ [][NextLoad]_vars

(***************************************************************************)
(* SpecSave: clients loaded from a directory or made from a Telethon       *)
(* client, more accounts attached, saved, converted.                       *)
(***************************************************************************)
\* td = await TDesktop.FromTelethon(client, flag)
FromTelethon(newSession, net, r) ==
    /\ steps < MaxSteps
    /\ \E res \in {TDesktopFromTelethon(client, newSession, net,
                                        kPerformanceMode, r)} :
           /\ td' = IF res.err = "ok" THEN res.td ELSE td
           /\ heap' = IF res.err = "ok" THEN res.heap ELSE heap
           /\ last' = [op |-> "FromTelethon", err |-> res.err,
                       arg |-> <<newSession>>, pre |-> None]
    /\ steps' = steps + 1
    /\ UNCHANGED <<disk, kPerformanceMode, client>>

\* await Account.FromTelethon(client, flag, owner = td)
AttachAccount(newSession, net) ==
    /\ steps < MaxSteps
    /\ td # None
    /\ \E res \in {AccountFromTelethon(td, heap, client, newSession, net)} :
           /\ td' = res.td
           /\ heap' = res.heap
           /\ last' = [op |-> "AttachAccount", err |-> res.err,
                       arg |-> <<newSession>>, pre |-> None]
    /\ steps' = steps + 1
    /\ UNCHANGED <<disk, kPerformanceMode, client>>

\* client = await td.ToTelethon(flag = UseCurrentSession)
ToTelethon ==
    /\ steps < MaxSteps
    /\ td # None
    /\ \E res \in {ToTelethonOf(td, heap)} :
           /\ client' = IF res.err = "ok" THEN res.client ELSE client
           /\ last' = [op |-> "ToTelethon", err |-> res.err, arg |-> <<>>,
                       pre |-> None]
    /\ steps' = steps + 1
    /\ UNCHANGED <<disk, td, heap, kPerformanceMode>>

\* td.SaveTData(Dir, passcode, keyFile) on a file system that does io
SaveTData(passcode, keyFile, r, io) ==
    /\ steps < MaxSteps
    /\ td # None
    /\ \E res \in {SaveTDataOf(td, heap, disk, kPerformanceMode, passcode,
                               keyFile, r, io)} :
           /\ td' = res.td
           /\ heap' = res.heap
           /\ disk' = res.disk
           /\ last' = [op |-> "SaveTData", err |-> res.err,
                       arg |-> <<passcode, keyFile>>, pre |-> td]
    /\ steps' = steps + 1
    /\ UNCHANGED <<kPerformanceMode, client>>

\* TDesktop.PerformanceMode(enabled)
PerformanceMode(enabled) ==
    /\ steps < MaxSteps
    /\ kPerformanceMode' = enabled
    /\ last' = [op |-> "PerformanceMode", err |-> "ok", arg |-> <<>>,
                pre |-> None]
    /\ steps' = steps + 1
    /\ UNCHANGED <<disk, td, heap, client>>

\* what the file system does to a save: nothing, or one account directory
\* that cannot be made or written
FileSystems ==
    {[how |-> "ok", part |-> DataNameOf(kDefaultKeyFile, 0)]} \cup
    {[how |-> how, part |-> DataNameOf(kf, i)] :
        how \in {"mkpath", "open"}, kf \in KeyFiles, i \in 0..1}

InitSave ==
    /\ disk \in {EmptyDisk} \cup
                {OfficialTData(passcode, indices, 0) :
                     passcode \in AsciiPasscodes,
                     indices \in {<<0>>, <<0, 1>>, <<1, 2>>, <<0, 1, 2>>}}
    /\ td = None
    /\ heap = EmptyHeap
    \* the class attribute as the class body sets it
    /\ kPerformanceMode = TRUE
    \* the Telethon client: one that knows its user, at a built-in data
    \* center, or one that does not, at another
    /\ client \in {[dc_id |-> 2, auth_key |-> 21, user_id |-> 201, me |-> 201],
                   [dc_id |-> 7, auth_key |-> 22, user_id |-> NoUserId,
                    me |-> 202]}
    /\ last = NoOp
    /\ steps = 0

NextSave ==
    \/ \E passcode \in PasscodeArgs : Construct(passcode)
    \/ \E newSession \in BOOLEAN, net \in BOOLEAN, r \in RandIds :
           FromTelethon(newSession, net, r)
    \/ \E newSession \in BOOLEAN, net \in BOOLEAN :
           AttachAccount(newSession, net)
    \/ ToTelethon
    \/ \E passcode \in PasscodeArgs, r \in RandIds,
          keyFile \in {Given(kf) : kf \in KeyFiles} \cup {NotGiven},
          io \in FileSystems :
           SaveTData(passcode, keyFile, r, io)
    \/ \E enabled \in BOOLEAN : PerformanceMode(enabled)

SpecSave == InitSave /\ [][NextSave]_vars

(***************************************************************************)
(* SpecAcct: one Account object, heap[1], whose MTP authorization is set   *)
(* from blobs and from values, and serialized.                             *)
(***************************************************************************)
\* a key of kSize bytes
KeyBytes(b) == [i \in 1..kSize |-> b]

\* the key lists of the authorizations tried
KeyLists ==
    {<<[dcId |-> 2, key |-> KeyBytes(1)]>>,
     <<[dcId |-> 3, key |-> KeyBytes(2)], [dcId |-> 2, key |-> KeyBytes(1)]>>}

\* the head of a blob: the tag with a 64-bit UserId and the MainDcId, or
\* the two 32-bit fields of the legacy format
IdBytes ==
    {PyInt(-1).low \o UserId \o writeInt32(MainDcId) :
         UserId \in {<<0, 0, 0, 0, 0, 0, 0, 5>>, <<0, 0, 0, 1, 0, 0, 0, 0>>,
                     <<128, 0, 0, 0, 0, 0, 0, 0>>},
         MainDcId \in {2, 3}}
    \cup {writeInt32(7) \o writeInt32(2), writeInt32(-3) \o writeInt32(2),
          writeInt32(7) \o writeInt32(-1)}

\* the blobs read: whole ones, and one cut inside its first key
Blobs ==
    {ids \o writeKeys(keys) \o writeKeys(toDestroy) :
         ids \in IdBytes, keys \in KeyLists,
         toDestroy \in KeyLists \cup {<<>>}}
    \cup {ids \o SubSeq(writeKeys(keys), 1, 100) :
              ids \in IdBytes, keys \in KeyLists}

\* account._setMtpAuthorization(serialized)
SetMtpAuthorization(serialized) ==
    /\ steps < MaxSteps
    /\ \E res \in {setMtpAuthorization(heap[1], serialized)} :
           /\ heap' = [heap EXCEPT ![1] = res.acct]
           /\ last' = [op |-> "setMtpAuthorization", err |-> res.err,
                       arg |-> serialized, pre |-> heap[1]]
    /\ steps' = steps + 1
    /\ UNCHANGED <<disk, td, kPerformanceMode, client>>

\* account._setMtpAuthorizationCustom(dcId, userId, mtpKeys)
SetMtpAuthorizationCustom(dcId, userId, mtpKeys) ==
    /\ steps < MaxSteps
    /\ \E res \in {setMtpAuthorizationCustom(heap[1], dcId, userId, mtpKeys)} :
           /\ heap' = [heap EXCEPT ![1] = res.acct]
           /\ last' = [op |-> "setMtpAuthorizationCustom", err |-> res.err,
                       arg |-> <<>>, pre |-> heap[1]]
    /\ steps' = steps + 1
    /\ UNCHANGED <<disk, td, kPerformanceMode, client>>

\* account.serializeMtpAuthorization()
SerializeMtpAuthorization ==
    /\ steps < MaxSteps
    /\ \E res \in {serializeMtpAuthorization(heap[1])} :
           last' = [op |-> "serializeMtpAuthorization", err |-> res.err,
                    arg |-> res.bytes, pre |-> heap[1]]
    /\ steps' = steps + 1
    /\ UNCHANGED <<disk, td, heap, kPerformanceMode, client>>

InitAcct ==
    /\ disk = EmptyDisk
    /\ td = None
    /\ heap = [EmptyHeap EXCEPT
                  ![1] = [NewAccount(kDefaultKeyFile, 0) EXCEPT
                             !.UserId = PyInt(0)]]
    /\ kPerformanceMode = FALSE
    /\ client = None
    /\ last = NoOp
    /\ steps = 0

NextAcct ==
    \/ \E serialized \in Blobs : SetMtpAuthorization(serialized)
    \/ \E dcId \in {2, 3}, mtpKeys \in KeyLists :
           SetMtpAuthorizationCustom(dcId, PyInt(9), mtpKeys)
    \/ SerializeMtpAuthorization

SpecAcct == InitAcct /\ [][NextAcct]_vars

\* the main key of a loaded account is one of its keys, at its main data
\* center
HoldsMainKey(a) ==
    a.isLoaded =>
        /\ \E i \in 1..Len(a.mtpKeys) : a.mtpKeys[i] = a.authKey
        /\ a.authKey.dcId = a.MainDcId

\* C8: a loaded account's authKey is one of its mtpKeys, at its MainDcId;
\* an authorization (read or custom) without a key for its main data center
\* raises TDataAuthKeyNotFound and does not make the account loaded; after
\* any sequence of successful and failed calls on the same account.
C8_MainAuthKey ==
    /\ HoldsMainKey(heap[1])
    /\ (/\ last.op \in {"setMtpAuthorization", "setMtpAuthorizationCustom"}
        /\ last.err # "QDataStreamFailed"
        /\ MainKeys(heap[1].mtpKeys, heap[1].MainDcId) = <<>>)
       => (/\ last.err = "TDataAuthKeyNotFound"
           /\ heap[1].isLoaded => last.pre.isLoaded)

\* what _setMtpAuthorization restores
Authorization(a) ==
    <<a.UserId, a.MainDcId, a.mtpKeys, a.mtpKeysToDestroy>>

\* the blob begins with the 64-bit tag
Tagged(serialized) ==
    Len(serialized) >= 8 /\ SubSeq(serialized, 1, 8) = PyInt(-1).low

\* reading the blob on res gave the authorization of a
Restores(res, a) == res.err = "ok" /\ Authorization(res.acct) = Authorization(a)

\* C9: serializeMtpAuthorization of a loaded account gives a blob that
\* begins with kWideIdsTag and from which _setMtpAuthorization restores the
\* UserId, the MainDcId and both key lists; a blob without the tag is read
\* as its 32-bit userId and its 32-bit dcId.
C9_AuthorizationRoundTrip ==
    /\ (last.op = "serializeMtpAuthorization" /\ heap[1].isLoaded)
       => (/\ last.err = "ok"
           /\ Tagged(last.arg)
           /\ Restores(setMtpAuthorization(heap[1], last.arg), heap[1]))
    /\ (/\ last.op = "setMtpAuthorization"
        /\ Len(last.arg) >= 8
        /\ ~Tagged(last.arg))
       => (/\ heap[1].UserId = PyInt(readInt32(StreamOn(last.arg)))
           /\ heap[1].MainDcId = readInt32(after(StreamOn(last.arg), 4)))

(***************************************************************************)
(* SpecEnc: a payload, heap[2], written into an EncryptedDescriptor,       *)
(* heap[1], encrypted into heap[3] and decrypted into heap[4].             *)
(***************************************************************************)
\* the payloads: every length, of one byte repeated or of rising bytes
Payloads ==
    {[i \in 1..n |-> b] : n \in 0..MaxPayload, b \in {0, 255}}
        \cup {[i \in 1..n |-> i] : n \in 0..MaxPayload}

\* the keys: local keys of two passcodes
LocalKeys ==
    {CreateLocalKey(OfficialSalt, encode_ascii(passcode).bytes) :
         passcode \in AsciiPasscodes}

\* bytes handed to DecryptLocal that PrepareEncrypted did not make: too
\* short or not of whole blocks, or of one or two blocks behind a check
\* block that is or is not the hash of what they decrypt to under key, and
\* declaring any size
EncryptedInputs ==
    {[t |-> "QByteArray", size |-> size,
      key128 |-> [t |-> "sha1", of |-> <<>>],
      cipher |-> [t |-> "ige256", src |-> <<>>, key |-> key]] :
         size \in {0, 16, 20}, key \in LocalKeys}
    \cup {LET src == <<dataLen % 256, dataLen \div 256, 0, 0>>
                         \o [i \in 1..(fullLen - 4) |-> 7]
          IN [t |-> "QByteArray", size |-> 16 + fullLen,
              key128 |-> [t |-> "sha1", of |-> IF hashed THEN src ELSE <<>>],
              cipher |-> [t |-> "ige256", src |-> src, key |-> key]] :
             dataLen \in {0, 3, 4, 16, 17, 20, 32, 33, 276},
             fullLen \in {16, 32}, hashed \in BOOLEAN, key \in LocalKeys}

\* encrypted = Storage.PrepareEncrypted(data, key)
Encrypt(key) ==
    /\ steps < MaxSteps
    /\ \E res \in {PrepareEncrypted(heap[1], key)} :
           /\ heap' = [heap EXCEPT ![3] = IF res.err = "ok"
                                          THEN res.encrypted ELSE @]
           /\ last' = [op |-> "PrepareEncrypted", err |-> res.err,
                       arg |-> <<>>, pre |-> key]
    /\ steps' = steps + 1
    /\ UNCHANGED <<disk, td, kPerformanceMode, client>>

\* result = Storage.DecryptLocal(encrypted, authKey)
Decrypt(authKey) ==
    /\ steps < MaxSteps
    /\ heap[3] # Free
    /\ \E res \in {DecryptLocal(heap[3], authKey)} :
           /\ heap' = [heap EXCEPT ![4] = IF res.err = "ok"
                                          THEN res.data ELSE @]
           /\ last' = [op |-> "DecryptLocal", err |-> res.err,
                       arg |-> <<>>, pre |-> authKey]
    /\ steps' = steps + 1
    /\ UNCHANGED <<disk, td, kPerformanceMode, client>>

InitEnc ==
    /\ disk = EmptyDisk
    /\ td = None
    /\ \E payload \in Payloads, encrypted \in {Free} \cup EncryptedInputs :
           heap = [EmptyHeap EXCEPT
                      ![1] = writeRawData(EncryptedDescriptor(Len(payload)),
                                          payload),
                      ![2] = [t |-> "QByteArray", data |-> payload],
                      ![3] = encrypted]
    /\ kPerformanceMode = FALSE
    /\ client = None
    /\ last = NoOp
    /\ steps = 0

NextEnc ==
    \/ \E key \in LocalKeys : Encrypt(key)
    \/ \E authKey \in LocalKeys : Decrypt(authKey)

SpecEnc == InitEnc /\ [][NextEnc]_vars

\* decrypting gives the descriptor whose bytes behind the size are payload
GivesBack(res, payload) ==
    /\ res.err = "ok"
    /\ SubSeq(res.data.data, 5, Len(res.data.data)) = payload

\* C10: for every payload of 0 to MaxPayload bytes and every key,
\* PrepareEncrypted of the descriptor the payload was written into succeeds,
\* its output is 16 plus 4 + n rounded up to whole blocks long, and
\* DecryptLocal of it under the same key returns the payload behind the
\* size.
C10_EncryptionRoundTrip ==
    last.op = "PrepareEncrypted"
    => (/\ last.err = "ok"
        /\ heap[3].size = 16 + pad_to_block(4 + Len(heap[2].data))
        /\ GivesBack(DecryptLocal(heap[3], last.pre), heap[2].data))

(***************************************************************************)
(* SpecFile: one file name in one directory.  disk holds its candidates of *)
(* suffix "s", "1" and "0"; heap[1] is a FileWriteDescriptor, heap[2] the   *)
(* arrays written into it, heap[3] the descriptor ReadFile returned.       *)
(***************************************************************************)
\* file.writeData(data)
WriteData(data) ==
    /\ steps < MaxSteps
    /\ heap' = IF heap[1].device
               THEN [heap EXCEPT ![1] = FileWriteData(@, data),
                                 ![2].arrays = Append(@, data)]
               ELSE heap
    /\ last' = [op |-> "writeData",
                err |-> IF heap[1].device THEN "ok" ELSE "OpenTeleException",
                arg |-> <<>>, pre |-> None]
    /\ steps' = steps + 1
    /\ UNCHANGED <<disk, td, kPerformanceMode, client>>

\* file.finish()
Finish ==
    /\ steps < MaxSteps
    /\ heap[1].device
    /\ heap' = [heap EXCEPT ![1].device = FALSE]
    /\ disk' = [disk EXCEPT ![1] = FileFinish(heap[1])]
    /\ last' = [op |-> "finish", err |-> "ok", arg |-> <<>>, pre |-> None]
    /\ steps' = steps + 1
    /\ UNCHANGED <<td, kPerformanceMode, client>>

\* result = Storage.ReadFile(fileName, basePath)
Read ==
    /\ steps < MaxSteps
    /\ \E result \in {ReadFile(disk)} :
           /\ heap' = [heap EXCEPT ![3] =
                          IF result.err = "ok"
                          THEN [t |-> "FileReadDescriptor",
                                version |-> result.version,
                                data |-> result.data]
                          ELSE @]
           /\ last' = [op |-> "ReadFile", err |-> result.err, arg |-> <<>>,
                       pre |-> None]
    /\ steps' = steps + 1
    /\ UNCHANGED <<disk, td, kPerformanceMode, client>>

\* the candidate of suffix i as an earlier run or a crash left it: missing,
\* whole (holding one array of the byte i), of another magic, with a bit of
\* its payload flipped, or cut behind its version
Candidate(i, kind) ==
    LET whole == FileFinish(FileWriteData(FileWriteDescriptor("little"),
                     [t |-> "QByteArray", data |-> <<i>>, null |-> FALSE]))
    IN IF kind = "missing" THEN NoFile
       ELSE IF kind = "whole" THEN whole
       ELSE IF kind = "magic" THEN [whole EXCEPT !.magic = "XXXX"]
       ELSE IF kind = "flipped" THEN [whole EXCEPT !.data[5] = i + 128]
       ELSE [whole EXCEPT !.t = "short", !.data = <<>>]

InitFile ==
    /\ \E s, one, zero \in {"missing", "whole", "magic", "flipped", "short"} :
           disk = <<Candidate(1, s), Candidate(2, one), Candidate(3, zero)>>
    /\ td = None
    /\ \E ByteOrder \in {"little", "big"} :
           heap = [EmptyHeap EXCEPT
                      ![1] = FileWriteDescriptor(ByteOrder),
                      ![2] = [t |-> "written", arrays |-> <<>>]]
    /\ kPerformanceMode = FALSE
    /\ client = None
    /\ last = NoOp
    /\ steps = 0

NextFile ==
    \/ \E data \in {[t |-> "QByteArray", data |-> bytes, null |-> null] :
                        <<bytes, null>> \in
                            {<<<<>>, TRUE>>, <<<<>>, FALSE>>, <<<<7>>, FALSE>>,
                             <<<<255, 255, 255, 255>>, FALSE>>}} :
           WriteData(data)
    \/ Finish
    \/ Read

SpecFile == InitFile /\ [][NextFile]_vars

\* the first n arrays read from a stream with "stream >> array"
RECURSIVE readArrays(_, _)
readArrays(s, n) ==
    IF n = 0 THEN <<>>
    ELSE <<rshift(s).other>> \o readArrays(rshift(s).s, n - 1)

\* the stream behind the first n arrays
RECURSIVE behindArrays(_, _)
behindArrays(s, n) == IF n = 0 THEN s ELSE behindArrays(rshift(s).s, n - 1)

\* C12: after any sequence of writeData calls (null, empty and non-empty
\* arrays) and finish, ReadFile of the same name accepts the file, reports
\* APP_VERSION, and its stream gives the same arrays back, null ones null
\* and empty ones empty, and nothing more; the size under the MD5 is the
\* number of payload bytes written.
C12_FramedFileRoundTrip ==
    last.op = "finish"
    => LET result == ReadFile(disk)
           count == Len(heap[2].arrays)
       IN /\ result.err = "ok"
          /\ result.version = APP_VERSION
          /\ readArrays(StreamOn(result.data), count) = heap[2].arrays
          /\ behindArrays(StreamOn(result.data), count).ok
          /\ behindArrays(StreamOn(result.data), count).pos
                 = Len(result.data) + 1
          /\ disk[1].md5.of[2] = Len(disk[1].data)

\* why a candidate is not read, "ok" when it is: it does not open, its
\* magic is not TDF$, or its trailing MD5 does not verify (a file too short
\* to hold an MD5 among them)
Failure(f) ==
    IF f = NoFile THEN "TFileNotFound"
    ELSE IF f.magic # TDF_MAGIC THEN "TDataInvalidMagic"
    ELSE IF f.t = "short" \/ f.md5 # FileMd5(f.data, f.version, f.magic)
    THEN "TDataInvalidCheckSum"
    ELSE "ok"

\* the failures of the three candidates
Failures == {Failure(disk[i]) : i \in 1..3}

\* C13: ReadFile returns the payload and version of the first candidate, in
\* the order "s", "1", "0", that opens, has the magic and verifies, whatever
\* the earlier and later candidates are.
C13_FallbackChain ==
    last.op = "ReadFile"
    => \A i \in 1..3 :
           (Failure(disk[i]) = "ok" /\ \A j \in 1..(i - 1) :
                                          Failure(disk[j]) # "ok")
           => (/\ last.err = "ok"
               /\ heap[3].data = disk[i].data
               /\ heap[3].version = disk[i].version)

\* C14: a candidate whose payload has a flipped bit is never what ReadFile
\* returns, and when no candidate is valid the call raises
\* TDataInvalidCheckSum, whatever the other two candidates are.
C14_ChecksumProperty ==
    (last.op = "ReadFile" /\ "TDataInvalidCheckSum" \in Failures)
    => (/\ last.err = "ok"
           => \E i \in 1..3 : /\ Failure(disk[i]) = "ok"
                              /\ heap[3].data = disk[i].data
        /\ "ok" \notin Failures => last.err = "TDataInvalidCheckSum")

\* C15: when all three candidates fail, ReadFile raises the most specific
\* failure seen: TDataInvalidCheckSum if any candidate failed its checksum,
\* otherwise TDataInvalidMagic if any had a wrong magic, otherwise
\* TFileNotFound.
C15_FailureReason ==
    (last.op = "ReadFile" /\ "ok" \notin Failures)
    => last.err = IF "TDataInvalidCheckSum" \in Failures
                  THEN "TDataInvalidCheckSum"
                  ELSE IF "TDataInvalidMagic" \in Failures
                  THEN "TDataInvalidMagic"
                  ELSE "TFileNotFound"

\* what aesDecryptLocal gives under authKey: the plaintext under the key
\* of the encryption, other bytes under any other key
Decrypted(encrypted, authKey) ==
    IF encrypted.cipher.key = authKey THEN encrypted.cipher.src
    ELSE <<"other">> \o encrypted.cipher.src

\* the size the decrypted bytes declare
Declared(decrypted) ==
    decrypted[1] + 256 * decrypted[2] + 65536 * decrypted[3]
        + 16777216 * decrypted[4]

\* C11: DecryptLocal raises TDataBadEncryptedDataSize exactly for an input
\* of at most 16 bytes or not of whole blocks; otherwise TDataBadDecryptKey
\* exactly when the hash of the decrypted blocks is not the check block;
\* otherwise TDataBadDecryptedDataSize exactly when the declared size d is
\* not in fullLen - 16 < d <= fullLen or is below 4; otherwise it returns a
\* descriptor of exactly d bytes with the cursor at offset 4.
C11_DecryptLocalErrors ==
    last.op = "DecryptLocal"
    => LET encrypted == heap[3]
           fullLen == encrypted.size - 16
           decrypted == Decrypted(encrypted, last.pre)
       IN IF encrypted.size <= 16 \/ encrypted.size % 16 # 0
          THEN last.err = "TDataBadEncryptedDataSize"
          ELSE IF [t |-> "sha1", of |-> decrypted] # encrypted.key128
          THEN last.err = "TDataBadDecryptKey"
          ELSE IF \/ ~(fullLen - 16 < Declared(decrypted)
                        /\ Declared(decrypted) <= fullLen)
                  \/ Declared(decrypted) < 4
          THEN last.err = "TDataBadDecryptedDataSize"
          ELSE /\ last.err = "ok"
               /\ heap[4].data = SubSeq(decrypted, 1, Declared(decrypted))
               /\ heap[4].pos = 4

\* a declared size was refused behind a check block that matched
C11_BadDeclaredSize ==
    last.op = "DecryptLocal" /\ last.err = "TDataBadDecryptedDataSize"

(***************************************************************************)
(* Claims about saving and converting.                                     *)
(***************************************************************************)
\* what a claim compares of an account
Summary(a) ==
    [index |-> a.index, UserId |-> a.UserId, MainDcId |-> a.MainDcId,
     authKey |-> a.authKey]

Summaries(t, h) == [i \in 1..Len(t.accounts) |-> Summary(h[t.accounts[i]])]

\* TDesktop(Dir, passcode, keyFile) with the passcode and key file of td
Reloaded ==
    LoadTDataOf(NewTDesktop(Dir, td.passcodeBytes, td.passcode, td.keyFile),
                EmptyHeap, disk, kPerformanceMode, NotGiven)

\* the same accounts come back
sameAccounts(res) ==
    /\ res.err = "ok"
    /\ Summaries(res.td, res.heap) = Summaries(td, heap)

\* C1: after SaveTData returned True on a client of one to three loaded
\* accounts, a client constructed on the directory with the same passcode
\* and key file loads, and holds as many accounts with the same index,
\* UserId, MainDcId and main authKey.
C1_SaveLoadRoundTrip ==
    (/\ last.op = "SaveTData"
     /\ last.err = "ok"
     /\ Len(td.accounts) \in 1..kMaxAccounts
     /\ \A i \in 1..Len(td.accounts) : heap[td.accounts[i]].isLoaded)
    => sameAccounts(Reloaded)

\* the main account of the client
MainAccount == heap[td.mainAccount]

\* the client carries the data center, the key and the user of account a
Carries(a) ==
    /\ client.dc_id = a.MainDcId
    /\ client.auth_key = a.authKey.key
    /\ client.user_id = a.UserId

\* res is a loaded client of one account, of index 0 and main, with the data
\* center, the user and the key of account a
ComesBack(res, a) ==
    /\ res.err = "ok"
    /\ res.td.isLoaded
    /\ Len(res.td.accounts) = 1
    /\ res.td.mainAccount = res.td.accounts[1]
    /\ Summary(res.heap[res.td.accounts[1]]) = [Summary(a) EXCEPT !.index = 0]

\* ToTelethon returned the client of the main account, and FromTelethon of
\* that client returns its account
RoundTrip ==
    /\ last.err = "ok"
    /\ Carries(MainAccount)
    /\ \A r \in RandIds, net \in BOOLEAN :
           ComesBack(TDesktopFromTelethon(client, FALSE, net,
                                          kPerformanceMode, r), MainAccount)

ConvertedLoaded ==
    /\ last.op = "ToTelethon"
    /\ td.isLoaded
    /\ Len(td.accounts) >= 1

\* C2 as stated: ToTelethon(UseCurrentSession) of any loaded client gives a
\* client with the data center, key and user of the main account, and
\* FromTelethon(UseCurrentSession) of it a loaded client of exactly that
\* account, at index 0 and main.
C2_AnyMainDc == ConvertedLoaded => RoundTrip

\* C2, amended: the same for a loaded client whose main account's MTP
\* configuration lists an endpoint of its main data center.
C2_ConversionRoundTrip ==
    (ConvertedLoaded /\ MainAccount.MainDcId \in MainAccount.config)
    => RoundTrip

\* C2 witness: a client of several accounts was converted, and the Telethon
\* client carries its main account
C2_Converted ==
    /\ ConvertedLoaded
    /\ last.err = "ok"
    /\ Len(td.accounts) > 1
    /\ Carries(MainAccount)

\* C7: Account.FromTelethon with an owner of three accounts raises
\* MaxAccountLimit, writes no file and leaves the owner's account list, main
\* account, local key and loaded flag as they were.
C7_CapacityEnforcement ==
    [][(/\ td # None
        /\ Len(td.accounts) = kMaxAccounts
        /\ last'.op = "AttachAccount")
       => (/\ last'.err = "MaxAccountLimit"
           /\ disk' = disk
           /\ td'.accounts = td.accounts
           /\ td'.mainAccount = td.mainAccount
           /\ td'.localKey = td.localKey
           /\ td'.isLoaded = td.isLoaded)]_vars

(***************************************************************************)
(* What the directory holds, read off the key file as it was written.      *)
(***************************************************************************)
LoadOps == {"Construct", "LoadTData"}

KeyFileOnDisk == disk.key[kDefaultKeyFile]

\* the passcode the key file was written under
WrittenPasscode == KeyFileOnDisk.data[2].key.pass.v

\* the local key and the account list the key file holds
WrittenLocalKey == KeyFileOnDisk.data[2].plain[1]
WrittenInfo == KeyFileOnDisk.data[3].plain
ListedIndices == SubSeq(WrittenInfo, 2, 1 + WrittenInfo[1])
PersistedActiveIndex == WrittenInfo[2 + WrittenInfo[1]]

\* the data of account index, taken alone, loads
LoadsAlone(index) ==
    LET r == prepareToStart(NewAccount(kDefaultKeyFile, index),
                            disk.dir[DataNameOf(kDefaultKeyFile, index)],
                            WrittenLocalKey, kPerformanceMode)
    IN r.err = "ok" /\ r.acct.isLoaded

\* the indices of the client's accounts, in the order of the list
IndicesOf(accounts) == [i \in 1..Len(accounts) |-> heap[accounts[i]].index]

\* the last operation was a load of an intact key file with its passcode
LoadedWithRightPasscode ==
    /\ last.op \in LoadOps
    /\ ReadCandidate(KeyFileOnDisk) = "ok"
    /\ last.arg = WrittenPasscode

C4_WrongPasscode ==
    /\ (/\ last.op \in LoadOps
        /\ ReadCandidate(KeyFileOnDisk) = "ok"
        /\ last.arg # WrittenPasscode)
       => /\ last.err = "TDataBadDecryptKey"
          /\ last.op = "LoadTData" =>
                 /\ td.accounts = <<>>
                 /\ td.localKey = last.pre.localKey
    /\ (/\ last.op \in LoadOps
        /\ ReadCandidate(KeyFileOnDisk) \in
               {"TDataInvalidMagic", "TDataInvalidCheckSum"})
       => last.err \notin {"ok", "TDataBadDecryptKey"}

\* C5: after a successful load the client has an account, and its main
\* account is the loaded account with the persisted active index if there
\* is one, the first loaded account otherwise.
C5_MainAccountAfterLoad ==
    (last.op \in LoadOps /\ last.err = "ok") =>
        /\ Len(td.accounts) > 0
        /\ td.mainAccount =
               IF \E i \in 1..Len(td.accounts) :
                      heap[td.accounts[i]].index = PersistedActiveIndex
               THEN td.accounts[CHOOSE i \in 1..Len(td.accounts) :
                        /\ heap[td.accounts[i]].index = PersistedActiveIndex
                        /\ \A j \in 1..(i - 1) :
                               heap[td.accounts[j]].index # PersistedActiveIndex]
               ELSE td.accounts[1]

\* C6: the client never holds more than kMaxAccounts accounts.
C6_AccountsCountBounded ==
    td # None => Len(td.accounts) <= kMaxAccounts

(***************************************************************************)
(* SpecMap: the map file of one account.  disk is the file "map", heap[1]  *)
(* the MapData object, heap[2] the records the file holds.                 *)
(***************************************************************************)
\* the local key of the account and another one
MapKeys == {[dcId |-> 0, key |-> [i \in 1..kSize |-> b]] : b \in {1, 2}}

LegacyPasscodes == {EmptyBytes, [t |-> "bytes", v |-> <<"p">>]}

\* QByteArray() and a salt of size bytes
ArrayOfSize(size) == [t |-> "QByteArray", size |-> size]

\* map.read(localKey, legacyPasscode)
MapRead(localKey, legacyPasscode) ==
    /\ steps < MaxSteps
    /\ \E r \in {MapDataRead(heap[1], ReadFile(OnlyS(disk)), localKey,
                             legacyPasscode)} :
           /\ heap' = [heap EXCEPT ![1] = r.m]
           /\ last' = [op |-> "read", err |-> r.err, arg |-> localKey,
                       pre |-> heap[1]]
    /\ steps' = steps + 1
    /\ UNCHANGED <<disk, td, kPerformanceMode, client>>

\* what a file that _writeMap wrote from m holds: _writeMapEntries has no
\* record for the legacy background keys
Written(m) ==
    [t |-> "holds", whole |-> TRUE, unknown |-> FALSE,
     draftsMap |-> m.draftsMap, draftCursorsMap |-> m.draftCursorsMap,
     keys |-> [k \in KEY_TO_ATTR |->
                  IF k \in {"legacyBackgroundKeyDay",
                            "legacyBackgroundKeyNight"}
                  THEN FileKey(0) ELSE m.keys[k]]]

\* StorageAccount._writeMap(basePath) under localKey; PrepareEncrypted
\* raises before anything is written
WriteMap(localKey) ==
    /\ steps < MaxSteps
    /\ \E r \in {PrepareEncrypted(prepareToWrite(heap[1]), localKey)} :
           /\ disk' = IF r.err # "ok" THEN disk
                      ELSE FramedFile(<<ArrayOfSize(0), ArrayOfSize(0),
                                        r.encrypted>>)
           /\ heap' = IF r.err # "ok" THEN heap
                      ELSE [heap EXCEPT ![2] = Written(heap[1])]
           /\ last' = [op |-> "writeMap", err |-> r.err, arg |-> localKey,
                       pre |-> None]
    /\ steps' = steps + 1
    /\ UNCHANGED <<td, kPerformanceMode, client>>

\* a record of the map as Telegram Desktop or an earlier run wrote it: its
\* bytes and the keys and drafts it holds.  "draft" has a serialized peer,
\* "draftPosition" a legacy one; "unknown" and "later" are of a type this
\* version does not know, "later" with a payload of eight bytes.
MapRecord(kind) ==
    LET record(type, payload, keys, drafts, cursors) ==
            [bytes |-> writeInt32(type) \o payload, keys |-> keys,
             drafts |-> drafts, cursors |-> cursors,
             unknown |-> kind \in {"unknown", "later"}]
    IN CASE kind = "locations" ->
                record(lskType.lskLocations, FileKey(5),
                       [k \in {"locationsKey"} |-> FileKey(5)], <<>>, <<>>)
         [] kind = "trustedBots" ->
                record(lskType.lskTrustedBots, FileKey(6),
                       [k \in {"trustedBotsKey"} |-> FileKey(6)], <<>>, <<>>)
         [] kind = "backgroundOld" ->
                record(lskType.lskBackgroundOld, FileKey(7) \o FileKey(8),
                       [k \in {"legacyBackgroundKeyDay",
                               "legacyBackgroundKeyNight"} |->
                           IF k = "legacyBackgroundKeyDay" THEN FileKey(7)
                           ELSE FileKey(8)], <<>>, <<>>)
         [] kind = "webviewTokens" ->
                record(lskType.lskWebviewTokens, FileKey(9) \o FileKey(10),
                       [k \in {"webviewStorageTokenBots",
                               "webviewStorageTokenOther"} |->
                           IF k = "webviewStorageTokenBots" THEN FileKey(9)
                           ELSE FileKey(10)], <<>>, <<>>)
         [] kind = "draft" ->
                record(lskType.lskDraft,
                       writeInt32(1) \o FileKey(11)
                           \o PeerIdSerialize(FileKey(12)),
                       <<>>, <<<<FileKey(12), FileKey(11)>>>>, <<>>)
         [] kind = "draftPosition" ->
                record(lskType.lskDraftPosition,
                       writeInt32(1) \o FileKey(14)
                           \o <<0, 0, 0, 1, 0, 0, 0, 13>>,
                       <<>>, <<>>,
                       <<<<<<0, 1, 0, 0, 0, 0, 0, 13>>, FileKey(14)>>>>)
         [] kind = "legacyImages" ->
                record(lskType.lskLegacyImages,
                       writeInt32(1) \o [i \in 1..28 |-> i], <<>>, <<>>, <<>>)
         [] kind = "selfSerialized" ->
                record(lskType.lskSelfSerialized, writeInt32(2) \o <<1, 2>>,
                       <<>>, <<>>, <<>>)
         [] kind = "savedPeersOld" ->
                record(lskType.lskSavedPeersOld, FileKey(15), <<>>, <<>>,
                       <<>>)
         [] kind = "later" -> record(99, FileKey(4), <<>>, <<>>, <<>>)
         [] OTHER -> record(99, <<>>, <<>>, <<>>, <<>>)

\* the records of a file together: their bytes, cut bytes short of the end,
\* and what they hold
RECURSIVE Holding(_, _, _)
Holding(records, i, cut) ==
    IF i = 0
    THEN [t |-> "holds", whole |-> cut = 0, unknown |-> FALSE,
          bytes |-> <<>>, draftsMap |-> <<>>, draftCursorsMap |-> <<>>,
          keys |-> [k \in KEY_TO_ATTR |-> FileKey(0)]]
    ELSE LET h == Holding(records, i - 1, 0)
             r == records[i]
         IN [t |-> "holds", whole |-> cut = 0,
             unknown |-> h.unknown \/ r.unknown,
             bytes |-> SubSeq(h.bytes \o r.bytes, 1,
                              Len(h.bytes) + Len(r.bytes) - cut),
             draftsMap |-> IF r.drafts = <<>> THEN h.draftsMap
                           ELSE setitem(h.draftsMap, r.drafts[1][1],
                                        r.drafts[1][2]),
             draftCursorsMap |->
                 IF r.cursors = <<>> THEN h.draftCursorsMap
                 ELSE setitem(h.draftCursorsMap, r.cursors[1][1],
                              r.cursors[1][2]),
             keys |-> [k \in KEY_TO_ATTR |->
                          IF k \in DOMAIN r.keys THEN r.keys[k]
                          ELSE h.keys[k]]]

\* the map file of salt, the local key sealed under the legacy passcode
\* (or nothing, sealed = FALSE) and the bytes of the map sealed under
\* localKey
MapFileOf(salt, sealed, legacyPasscode, bytes, localKey) ==
    FramedFile(
        <<salt,
          IF sealed
          THEN PrepareEncrypted(
                   writeRawData(EncryptedDescriptor(kSize), localKey.key),
                   CreateLegacyLocalKey(salt, legacyPasscode)).encrypted
          ELSE ArrayOfSize(0),
          PrepareEncrypted(
              writeRawData(EncryptedDescriptor(Len(bytes)), bytes),
              localKey).encrypted>>)

\* a MapData that holds the things named in has
MapState(has) ==
    [MapData EXCEPT
        !.draftsMap = IF "drafts" \in has
                      THEN <<<<FileKey(21), FileKey(22)>>,
                             <<FileKey(23), FileKey(24)>>>>
                      ELSE <<>>,
        !.draftsNotReadMap = IF "drafts" \in has
                             THEN <<<<FileKey(21), TRUE>>,
                                    <<FileKey(23), TRUE>>>>
                             ELSE <<>>,
        !.draftCursorsMap = IF "cursors" \in has
                            THEN <<<<FileKey(21), FileKey(25)>>>>
                            ELSE <<>>,
        !.keys = [k \in KEY_TO_ATTR |->
                     CASE k = "locationsKey" /\ "locations" \in has ->
                              FileKey(26)
                       [] k = "featuredStickersKey" /\ "featured" \in has ->
                              FileKey(27)
                       [] k = "archivedMasksKey" /\ "masks" \in has ->
                              FileKey(28)
                       [] k = "webviewStorageTokenOther" /\ "tokens" \in has ->
                              FileKey(29)
                       [] k = "legacyBackgroundKeyNight" /\ "legacy" \in has ->
                              FileKey(30)
                       [] k = "userSettingsKey" /\ "settings" \in has ->
                              HARDCODED_SETTINGS_KEY
                       [] OTHER -> FileKey(0)]]

\* the sequences of records of the files read
MapRecords ==
    LET known == {"locations", "trustedBots", "backgroundOld",
                  "webviewTokens", "draft", "draftPosition", "legacyImages",
                  "selfSerialized", "savedPeersOld"}
        kinds == known \cup {"unknown", "later"}
    IN {<<>>} \cup {<<MapRecord(a)>> : a \in kinds}
       \cup {<<MapRecord(a), MapRecord(b)>> : a, b \in kinds}
       \cup {<<MapRecord(a), MapRecord(u), MapRecord(b)>> :
                 a, b \in known, u \in {"unknown", "later"}}

\* Either any MapData over a file of one record, or one of two MapData over
\* any file: missing, cut behind its version, of two arrays, with a legacy
\* key behind a salt of the right or of another size, or of any records,
\* whole or cut three bytes short.
InitMap ==
    /\ \E localKey \in MapKeys :
           \/ /\ \E has \in SUBSET {"drafts", "cursors", "locations",
                                    "featured", "masks", "tokens", "legacy",
                                    "settings"} :
                     heap = [EmptyHeap EXCEPT
                                ![1] = MapState(has),
                                ![2] = Holding(<<MapRecord("locations")>>, 1,
                                               0)]
              /\ disk = MapFileOf(ArrayOfSize(0), FALSE, EmptyBytes,
                                  MapRecord("locations").bytes, localKey)
           \/ /\ \E has \in {{"settings"}, {"drafts", "cursors", "locations",
                                            "tokens", "legacy"}},
                    records \in MapRecords, cut \in {0, 3} :
                     /\ cut < Len(Holding(records, Len(records), 0).bytes)
                     /\ heap = [EmptyHeap EXCEPT
                                   ![1] = MapState(has),
                                   ![2] = Holding(records, Len(records), cut)]
                     /\ disk = MapFileOf(ArrayOfSize(0), FALSE, EmptyBytes,
                                         heap[2].bytes, localKey)
           \/ /\ heap = [EmptyHeap EXCEPT
                            ![1] = MapState({"settings", "locations"}),
                            ![2] = Holding(<<MapRecord("trustedBots")>>, 1,
                                           0)]
              /\ \/ disk = NoFile
                 \/ disk = [FramedFile(<<>>) EXCEPT !.t = "short"]
                 \/ disk = FramedFile(<<ArrayOfSize(0), ArrayOfSize(0)>>)
                 \/ \E size \in {LEGACY_SALT_SIZE, 16},
                       legacyPasscode \in LegacyPasscodes :
                        disk = MapFileOf(ArrayOfSize(size), TRUE,
                                         legacyPasscode,
                                         MapRecord("trustedBots").bytes,
                                         localKey)
    /\ td = None
    /\ kPerformanceMode = FALSE
    /\ client = None
    /\ last = NoOp
    /\ steps = 0

NextMap ==
    \/ \E localKey \in MapKeys \cup {None},
          legacyPasscode \in LegacyPasscodes :
           MapRead(localKey, legacyPasscode)
    \/ \E localKey \in MapKeys : WriteMap(localKey)

SpecMap == InitMap /\ [][NextMap]_vars

\* a dict as the set of its items
Items(d) == {d[i] : i \in DOMAIN d}

\* C16: for any MapData state (any subset of non-zero FileKey fields,
\* webview tokens and legacy background keys included, any draft and
\* draft-cursor map), what _writeMap wrote with prepareToWrite, decrypted
\* and parsed by the map parser, has every FileKey field and both draft
\* maps of the state, zero fields zero.
C16_MapRoundTrip ==
    (last.op = "writeMap" /\ last.err = "ok")
        => LET parsed == parseMapStream(MapData,
                             DecryptLocal(disk.data[3], last.arg).data,
                             last.arg, disk.version)
           IN /\ parsed.err = "ok"
              /\ parsed.m.keys = heap[1].keys
              /\ Items(parsed.m.draftsMap) = Items(heap[1].draftsMap)
              /\ Items(parsed.m.draftCursorsMap)
                     = Items(heap[1].draftCursorsMap)

\* C17: MapData.read is atomic.  If it raises, every field of the MapData
\* is what it was before the call; if it returns, every FileKey is the one
\* the file holds, or zero where the file has none, and the draft maps
\* hold exactly the entries of the file.
C17_ReadAtomic ==
    last.op = "read"
        => IF last.err # "ok" THEN heap[1] = last.pre
           ELSE /\ heap[1].keys = heap[2].keys
                /\ Items(heap[1].draftsMap) = Items(heap[2].draftsMap)
                /\ Items(heap[1].draftCursorsMap)
                       = Items(heap[2].draftCursorsMap)
                /\ Items(heap[1].draftsNotReadMap)
                       = {<<item[1], TRUE>> : item \in Items(heap[2].draftsMap)}

\* C18: a map in which a record of an unknown key type stands among records
\* of known types is read without error, the unknown record is skipped as
\* a whole, and every known record before and behind it gives its field
\* the value written.
C18_UnknownKeySkipped ==
    (/\ last.op = "read"
     /\ heap[2].unknown /\ heap[2].whole
     /\ last.arg # None
     /\ DecryptLocal(disk.data[3], last.arg).err = "ok")
        => /\ last.err = "ok"
           /\ heap[1].keys = heap[2].keys
           /\ Items(heap[1].draftsMap) = Items(heap[2].draftsMap)
           /\ Items(heap[1].draftCursorsMap) = Items(heap[2].draftCursorsMap)

(***************************************************************************)
(* SpecMtp: one MTP.Config, heap[1], serialized into heap[2] and read back *)
(* from it, and asked for its endpoints, heap[3].                          *)
(***************************************************************************)
\* config._dcOptions.constructAddOne(id, flags, ip, port, secret)
ConstructAddOne(id, flags, ip, port, secret) ==
    /\ steps < MaxSteps
    /\ heap' = [heap EXCEPT ![1].data =
                   applyOneGuarded(@, id % kDcShift, flags, ip, port, secret)]
    /\ last' = [op |-> "constructAddOne", err |-> "ok", arg |-> id,
                pre |-> None]
    /\ steps' = steps + 1
    /\ UNCHANGED <<disk, td, kPerformanceMode, client>>

\* "config._fields.<name> = v" for the i-th name
SetField(i, v) ==
    /\ steps < MaxSteps
    /\ heap' = [heap EXCEPT ![1].fields[i].v = v]
    /\ last' = [op |-> "setField", err |-> "ok", arg |-> i, pre |-> None]
    /\ steps' = steps + 1
    /\ UNCHANGED <<disk, td, kPerformanceMode, client>>

\* serialized = config.Serialize(); of remembers the config it is of
Serialize ==
    /\ steps < MaxSteps
    /\ heap' = [heap EXCEPT ![2] = [t |-> "QByteArray",
                                    data |-> ConfigSerialize(heap[1]),
                                    of |-> heap[1]]]
    /\ last' = [op |-> "Serialize", err |-> "ok", arg |-> <<>>, pre |-> None]
    /\ steps' = steps + 1
    /\ UNCHANGED <<disk, td, kPerformanceMode, client>>

\* config = MTP.Config.FromSerialized(serialized), as in
\* StorageAccount._readMtpConfig
FromSerialized ==
    /\ steps < MaxSteps
    /\ heap[2] # Free
    /\ \E r \in {ConfigFromSerialized(heap[2].data)} :
           /\ heap' = IF r.err = "ok" THEN [heap EXCEPT ![1] = r.config]
                      ELSE heap
           /\ last' = [op |-> "FromSerialized", err |-> r.err, arg |-> <<>>,
                       pre |-> heap[1]]
    /\ steps' = steps + 1
    /\ UNCHANGED <<disk, td, kPerformanceMode, client>>

\* results = config.endpoints(dcId)
Endpoints(dcId) ==
    /\ steps < MaxSteps
    /\ \E r \in {endpoints(heap[1], dcId)} :
           /\ heap' = [heap EXCEPT ![3] = r.results]
           /\ last' = [op |-> "endpoints", err |-> r.err, arg |-> dcId,
                       pre |-> None]
    /\ steps' = steps + 1
    /\ UNCHANGED <<disk, td, kPerformanceMode, client>>

\* A config of either environment; nothing is serialized yet, or there is
\* the config file of an installation that has no DC options.
InitMtp ==
    /\ \E enviroment \in {"Production", "Test"} :
           /\ \E bare \in BOOLEAN :
                  heap = [EmptyHeap EXCEPT
                             ![1] = Config(enviroment),
                             ![2] = IF bare
                                    THEN [t |-> "QByteArray", of |-> None,
                                          data |-> ConfigSerialize(
                                              [Config(enviroment) EXCEPT
                                                  !.data = <<>>])]
                                    ELSE Free]
    /\ disk = NoFile
    /\ td = None
    /\ kPerformanceMode = FALSE
    /\ client = None
    /\ last = NoOp
    /\ steps = 0

NextMtp ==
    \/ \E id \in {2, 6, 10002},
          endpoint \in {[flags |-> Flag.f_ipv6, ip |-> <<58, 58, 49>>,
                         port |-> 443, secret |-> <<>>],
                        [flags |-> Flag.f_tcpo_only, ip |-> <<49, 46, 49>>,
                         port |-> 80, secret |-> <<>>],
                        [flags |-> Flag.f_static + Flag.f_secret,
                         ip |-> <<49, 46, 49>>, port |-> 443,
                         secret |-> <<1, 2>>]} :
           ConstructAddOne(id, endpoint.flags, endpoint.ip, endpoint.port,
                           endpoint.secret)
    \/ \E i \in DOMAIN ConfigFields :
           \E v \in (IF ConfigFields[i].name = "chatSizeMax" THEN {-1}
                     ELSE IF ConfigFields[i].name = "revokePrivateInbox"
                     THEN {TRUE}
                     ELSE IF ConfigFields[i].name = "txtDomainString"
                     THEN {<<>>, <<233>>}
                     ELSE {}) :
               SetField(i, v)
    \/ Serialize
    \/ FromSerialized
    \/ \E dcId \in {0, 2, 6, 7} : Endpoints(dcId)

SpecMtp == InitMtp /\ [][NextMtp]_vars

\* C19: Config.FromSerialized(config.Serialize()) succeeds and gives a
\* config of the same environment, with the same value of every scalar
\* field and, for every DC, the same endpoints: id, flags, ip, port and
\* secret.
C19_MtpConfigRoundTrip ==
    (last.op = "FromSerialized" /\ heap[2].of.t # "None")
        => /\ last.err = "ok"
           /\ heap[1].enviroment = heap[2].of.enviroment
           /\ heap[1].fields = heap[2].of.fields
           /\ Items(heap[1].data) = Items(heap[2].of.data)

\* C20: Config.endpoints(dcId) does not fail, for dcId = 0 and for a DC
\* without endpoints either.  It returns the endpoints of the DC, for
\* dcId = 0 those of all DCs, each of them in the Tcp bucket of its address
\* family (IPv6 iff it has the ipv6 flag) and of no other, and in the Http
\* bucket of that family iff it has neither the tcpo-only nor the secret
\* flag.
C20_EndpointBuckets ==
    last.op = "endpoints"
        => /\ last.err = "ok"
           /\ LET wanted ==
                      UNION {Items(item[2]) : item \in
                                {item \in Items(heap[1].data) :
                                     last.arg = 0 \/ item[1] = last.arg}}
                  in(address, protocol) == Items(heap[3][address][protocol])
              IN /\ in("IPv4", "Tcp") \cup in("IPv6", "Tcp") = wanted
                 /\ \A endpoint \in wanted :
                        LET ipv6 == hasFlag(endpoint.flags, Flag.f_ipv6)
                            http == ~(\/ hasFlag(endpoint.flags,
                                                 Flag.f_tcpo_only)
                                      \/ hasFlag(endpoint.flags,
                                                 Flag.f_secret))
                        IN /\ (endpoint \in in("IPv6", "Tcp")) = ipv6
                           /\ (endpoint \in in("IPv4", "Tcp")) = ~ipv6
                           /\ (endpoint \in in("IPv6", "Http"))
                                  = (ipv6 /\ http)
                           /\ (endpoint \in in("IPv4", "Http"))
                                  = (~ipv6 /\ http)

(***************************************************************************)
(* Performance mode (C21).                                                 *)
(***************************************************************************)
\* the client holds the constant local key of performance mode
C21_ConstantKey ==
    /\ td # None
    /\ td.localKey.t = "key"
    /\ td.localKey.kdf = "perf"

\* C21: the constant local key is used only when the caller has enabled
\* performance mode and the passcode is empty: a client whose keys were
\* generated by the first call made on the library, before any call of
\* PerformanceMode, has keys of the random generator, and a client with a
\* non-empty passcode never holds the constant key.
C21_PerformanceModeOptIn ==
    /\ (steps = 1 /\ last.op = "FromTelethon" /\ last.err = "ok")
           => ~C21_ConstantKey
    /\ (td # None /\ ~isEmpty(td.passcodeBytes)) => ~C21_ConstantKey

(***************************************************************************)
(* Where a save writes (C22).                                              *)
(***************************************************************************)
\* the accounts of the client have pairwise distinct indices
C22_DistinctIndices ==
    \A i, j \in 1..Len(td.accounts) :
        heap[td.accounts[i]].index = heap[td.accounts[j]].index => i = j

\* C22: after a SaveTData that returned, with any keyFile argument, the
\* accounts of the client, of pairwise distinct indices, have not written
\* over each other: the MTP-authorization file of the account with index i
\* is found under the name derived from ComposeDataString(keyFile, i).
C22_NoDirectoryCollision ==
    (last.op = "SaveTData" /\ last.err = "ok" /\ C22_DistinctIndices)
        => \A i \in 1..Len(td.accounts) :
               disk.dir[DataNameOf(td.keyFile,
                                   heap[td.accounts[i]].index)].mtp
                   = MtpFile(serializeFields(heap[td.accounts[i]]),
                             heap[td.accounts[i]].localKey)

(***************************************************************************)
(* The order of a save (C23).                                              *)
(***************************************************************************)
\* the step is a call of SaveTData
C23_Saves == last'.op = "SaveTData" /\ steps' = steps + 1

\* the key file the client would write now
C23_KeyFileOf(c, objs) ==
    KeyFile(c.passcodeKeySalt, c.passcodeKeyEncrypted,
            [i \in 1..Len(c.accounts) |-> objs[c.accounts[i]].index],
            c.active_index, c.localKey)

\* the call leaves the key files alone unless it returns, and then the
\* key file lists the count, the indices in list order and the active index
C23_KeyFileLast ==
    [][C23_Saves =>
          IF last'.err = "ok"
          THEN disk'.key[td'.keyFile] = C23_KeyFileOf(td', heap')
          ELSE disk'.key = disk.key]_vars

\* C23: SaveTData writes the key file only after the files of every
\* account: a call in which the writing of an account's files raises leaves
\* the key files as they were and raises TDataSaveFailed, and a call that
\* returns has written a key file of the account count, the indices in list
\* order and the active index.
C23_SaveOrdering ==
    [][C23_Saves =>
          /\ IF last'.err = "ok"
             THEN disk'.key[td'.keyFile] = C23_KeyFileOf(td', heap')
             ELSE disk'.key = disk.key
          /\ last'.err \in {"ok", "UnicodeEncodeError", "TDataSaveFailed"}]_vars

(***************************************************************************)
(* The order of the records of a map (C24).                                *)
(***************************************************************************)
\* the kinds of records this version knows
C24_Known ==
    {"locations", "trustedBots", "backgroundOld", "webviewTokens", "draft",
     "draftPosition", "legacyImages", "selfSerialized", "savedPeersOld"}

\* read of the MapData m under localKey from a file of the records a, b
C24_ReadOf(m, a, b, localKey) ==
    MapDataRead(m,
                ReadFile(OnlyS(MapFileOf(ArrayOfSize(0), FALSE, EmptyBytes,
                                         MapRecord(a).bytes
                                             \o MapRecord(b).bytes,
                                         localKey))),
                localKey, EmptyBytes)

\* C24: the map reader does not depend on the order of the records: when
\* read has returned from a file of two records of different known types,
\* the read of the same records in the other order, by the same MapData
\* under the same key, returns too and yields the same FileKey fields and
\* the same draft maps.
C24_OrderIndependent ==
    \A a, b \in C24_Known :
        (/\ a # b
         /\ last.op = "read" /\ last.err = "ok"
         /\ "bytes" \in DOMAIN heap[2]
         /\ heap[2].bytes = MapRecord(a).bytes \o MapRecord(b).bytes)
            => /\ C24_ReadOf(last.pre, b, a, last.arg).err = "ok"
               /\ C24_ReadOf(last.pre, b, a, last.arg).m = heap[1]

(***************************************************************************)
(* SpecStream: reads of one QDataStream, heap[1], over a buffer; heap[2]   *)
(* is the value the last read returned.                                    *)
(***************************************************************************)
\* the bytes a read of a length-prefixed value asks for: the length, and
\* the bytes it announces
Prefixed(s) ==
    IF s.pos + 3 > Len(s.data) THEN 4
    ELSE IF SubSeq(s.data, s.pos, s.pos + 3) = <<255, 255, 255, 255>> THEN 4
    ELSE IF readInt32(s) < 0 THEN Len(s.data) + 5
    ELSE 4 + readInt32(s)

\* a read that asks for asked bytes, returns value (or raises err) and
\* leaves the stream as behind
Reading(op, asked, value, behind, err) ==
    /\ steps < MaxSteps
    /\ heap' = [heap EXCEPT ![1] = behind,
                            ![2] = [t |-> "value", v |-> value]]
    /\ last' = [op |-> op, err |-> err, arg |-> asked, pre |-> heap[1]]
    /\ steps' = steps + 1
    /\ UNCHANGED <<disk, td, kPerformanceMode, client>>

\* stream.readInt32()
ReadInt32 ==
    Reading("readInt32", 4, <<readInt32(heap[1])>>, after(heap[1], 4), "ok")

\* stream.readUInt64()
ReadUInt64 ==
    Reading("readUInt64", 8, readUInt64(heap[1]).low, after(heap[1], 8), "ok")

\* stream.readRawData(length)
ReadRawData(length) ==
    Reading("readRawData", length, readRawData(heap[1], length),
            after(heap[1], length), "ok")

\* stream >> QByteArray()
ReadByteArray ==
    Reading("rshift", Prefixed(heap[1]), rshift(heap[1]).other.data,
            rshift(heap[1]).s, "ok")

\* stream.readQString()
ReadQString ==
    Reading("readQString", Prefixed(heap[1]), readQString(heap[1]).v,
            readQString(heap[1]).s, readQString(heap[1]).err)

\* stream.resetStatus()
ResetStatus ==
    /\ steps < MaxSteps
    /\ heap' = [heap EXCEPT ![1].ok = TRUE]
    /\ last' = [op |-> "resetStatus", err |-> "ok", arg |-> 0,
                pre |-> heap[1]]
    /\ steps' = steps + 1
    /\ UNCHANGED <<disk, td, kPerformanceMode, client>>

\* the buffers read: integers, a string of one character, whole and cut, an
\* array of three bytes, whole and cut, a null array
Buffers ==
    {<<>>, <<1, 2, 3>>, <<0, 0, 0, 7>>, <<0, 0, 0, 7, 0, 0>>,
     <<0, 0, 0, 0, 0, 0, 0, 9, 0, 0, 0, 1>>,
     <<0, 0, 0, 2, 0, 65>>, <<0, 0, 0, 2, 0>>, <<0, 0, 0, 4, 0, 65>>,
     <<0, 0, 0, 3, 1, 2, 3, 0, 0, 0, 5>>, <<0, 0, 0, 3, 1, 2>>,
     <<255, 255, 255, 255, 0, 0, 0, 1, 7>>}

InitStream ==
    /\ \E bytes \in Buffers :
           heap = [EmptyHeap EXCEPT ![1] = StreamOn(bytes)]
    /\ disk = EmptyDisk
    /\ td = None
    /\ kPerformanceMode = TRUE
    /\ client = None
    /\ last = NoOp
    /\ steps = 0

NextStream ==
    \/ ReadInt32
    \/ ReadUInt64
    \/ \E length \in {0, 2, 5} : ReadRawData(length)
    \/ ReadByteArray
    \/ ReadQString
    \/ ResetStatus

SpecStream == InitStream /\ [][NextStream]_vars

\* the last step was a read
C25_Read ==
    last.op \in {"readInt32", "readUInt64", "readRawData", "rshift",
                 "readQString"}

\* the value the last read returned is zero or empty
C25_ZeroOrEmpty ==
    \/ heap[2].v = <<>>
    \/ last.op = "readInt32" /\ heap[2].v = <<0>>
    \/ last.op = "readUInt64" /\ heap[2].v = PyInt(0).low

\* the status is ReadPastEnd after a read that asked for more bytes than
\* remained, and no status becomes Ok but by resetStatus
C25_StatusSticky ==
    C25_Read =>
        /\ last.arg > Len(last.pre.data) - last.pre.pos + 1 => ~heap[1].ok
        /\ ~last.pre.ok => ~heap[1].ok

\* C25: no read of a QDataStream over a finite buffer raises; a read that
\* asks for more bytes than remain sets the status ReadPastEnd and returns
\* a zero or empty value, never a partial one, and the status stays other
\* than Ok in every later read until resetStatus.
C25_StickyReadPastEnd ==
    C25_Read =>
        /\ last.err = "ok"
        /\ last.arg > Len(last.pre.data) - last.pre.pos + 1
               => ~heap[1].ok /\ C25_ZeroOrEmpty
        /\ ~last.pre.ok => ~heap[1].ok

(***************************************************************************)
(* The local key of a client and of its accounts (C26).                    *)
(***************************************************************************)
\* C26: a client that reports isLoaded() has the local key of each of its
\* accounts, and its passcodeKeyEncrypted opens under its passcode key to
\* that local key, after any calls of the constructor, LoadTData,
\* FromTelethon and SaveTData, with and without a change of the passcode
\* and of performance mode.
C26_LocalKeyConsistency ==
    (td # None /\ td.isLoaded) =>
        /\ \A i \in 1..Len(td.accounts) :
               heap[td.accounts[i]].localKey = td.localKey
        /\ Unseal(td.passcodeKeyEncrypted, td.passcodeKey).err = "ok"
        /\ Unseal(td.passcodeKeyEncrypted, td.passcodeKey).plain
               = <<td.localKey>>

(***************************************************************************)
(* The indices of the accounts of a client (C27).                          *)
(***************************************************************************)
\* C27: the accounts of a client have pairwise distinct indices in 0..2,
\* also when an account is attached by FromTelethon to a client loaded
\* from a directory whose accounts have other indices than 0..n-1.
C27_DistinctAccountIndices ==
    td # None =>
        \A i, j \in 1..Len(td.accounts) :
            /\ heap[td.accounts[i]].index \in 0..(kMaxAccounts - 1)
            /\ heap[td.accounts[i]].index = heap[td.accounts[j]].index
                   => i = j

(***************************************************************************)
(* A loaded client (C28).                                                  *)
(***************************************************************************)
\* C28: a client that reports isLoaded() has at least one account, and its
\* main account is one of the accounts it holds, also after a call that
\* failed.
C28_LoadedImpliesUsable ==
    (td # None /\ td.isLoaded) =>
        /\ Len(td.accounts) > 0
        /\ \E i \in 1..Len(td.accounts) : td.accounts[i] = td.mainAccount

(***************************************************************************)
(* The endpoints of a data center (C29).                                   *)
(***************************************************************************)
\* C29: the endpoint list of each data center of the configuration never
\* holds two endpoints of the same ip and port: adding an endpoint whose ip
\* and port the list of its data center already has leaves the list as it
\* was.
C29_GuardedInsertion ==
    \A k \in DOMAIN heap[1].data :
        \A i, j \in DOMAIN heap[1].data[k][2] :
            (/\ heap[1].data[k][2][i].ip = heap[1].data[k][2][j].ip
             /\ heap[1].data[k][2][i].port = heap[1].data[k][2][j].port)
                => i = j

(***************************************************************************)
(* SpecQr: one call of TelegramClient._performQRLogin, heap[1].  attempt   *)
(* is the number of iterations of its loop begun, timeout_err whether the  *)
(* variable of that name is set, authorized what is_user_authorized() of   *)
(* the new client would answer, result where the call stands: "running",   *)
(* "2fa" (inside _handle2FA), "returned" or the exception raised.  timeouts *)
(* and completed are history: the attempts that timed out, and whether an  *)
(* attempt or the 2FA step completed the login.                            *)
(***************************************************************************)
MaxRetries == 3

\* behind the loop: "if timeout_err: raise timeout_err", "return newClient"
afterLoop(q) ==
    [q EXCEPT !.result = IF q.timeout_err THEN "TimeoutError" ELSE "returned"]

\* the call up to its first attempt: range(0) has no attempt
performQRLogin(request_retries, password) ==
    [t |-> "QRLogin", request_retries |-> request_retries,
     password |-> password, attempt |-> 0, timeout_err |-> FALSE,
     authorized |-> FALSE, timeouts |-> 0, completed |-> FALSE,
     result |-> IF request_retries = 0 THEN "returned" ELSE "running"]

\* one iteration of the loop: outcome is what the requests of the attempt
\* end in, late whether the server has authorized the new client although
\* the attempt timed out
attemptOf(q, outcome, late) ==
    IF (q.attempt > 0 /\ q.authorized)
           \/ outcome \in {"LoginTokenSuccess", "waited"}
    THEN afterLoop([q EXCEPT !.attempt = @ + 1, !.authorized = TRUE,
                             !.completed = TRUE])
    ELSE IF outcome = "TimeoutError"
    THEN IF q.attempt + 1 = q.request_retries
         THEN afterLoop([q EXCEPT !.attempt = @ + 1, !.timeout_err = TRUE,
                                  !.authorized = late, !.timeouts = @ + 1])
         ELSE [q EXCEPT !.attempt = @ + 1, !.timeout_err = TRUE,
                        !.authorized = late, !.timeouts = @ + 1]
    ELSE IF outcome = "SessionPasswordNeededError"
    THEN [q EXCEPT !.attempt = @ + 1, !.result = "2fa"]
    ELSE [q EXCEPT !.attempt = @ + 1, !.result = outcome]

\* _handle2FA(newClient, password): valid is whether the server takes the
\* password
handle2FA(q, valid) ==
    IF ~q.password THEN [q EXCEPT !.result = "NoPasswordProvided"]
    ELSE IF ~valid THEN [q EXCEPT !.result = "PasswordIncorrect"]
    ELSE [q EXCEPT !.result = "returned", !.authorized = TRUE,
                   !.completed = TRUE]

\* the next iteration of "for attempt in range(request_retries)"
Attempt(outcome, late) ==
    /\ steps < MaxSteps
    /\ heap[1].result = "running"
    /\ heap' = [heap EXCEPT ![1] = attemptOf(@, outcome, late)]
    /\ last' = [op |-> "attempt", err |-> "ok",
                arg |-> IF heap[1].attempt > 0 /\ heap[1].authorized
                        THEN "authorized" ELSE outcome,
                pre |-> heap[1]]
    /\ steps' = steps + 1
    /\ UNCHANGED <<disk, td, kPerformanceMode, client>>

\* "return await self._handle2FA(newClient, password)"
Handle2FA(valid) ==
    /\ steps < MaxSteps
    /\ heap[1].result = "2fa"
    /\ heap' = [heap EXCEPT ![1] = handle2FA(@, valid)]
    /\ last' = [op |-> "handle2FA", err |-> "ok", arg |-> "2fa",
                pre |-> heap[1]]
    /\ steps' = steps + 1
    /\ UNCHANGED <<disk, td, kPerformanceMode, client>>

InitQr ==
    /\ \E request_retries \in 0..MaxRetries, password \in BOOLEAN :
           heap = [EmptyHeap EXCEPT
                      ![1] = performQRLogin(request_retries, password)]
    /\ disk = EmptyDisk
    /\ td = None
    /\ kPerformanceMode = TRUE
    /\ client = None
    /\ last = NoOp
    /\ steps = 0

NextQr ==
    \/ \E outcome \in {"LoginTokenSuccess", "waited", "TimeoutError",
                       "AuthTokenAlreadyAcceptedError",
                       "AuthTokenExpiredError", "AuthTokenInvalidError",
                       "SessionPasswordNeededError"},
          late \in BOOLEAN :
           Attempt(outcome, late)
    \/ \E valid \in BOOLEAN : Handle2FA(valid)

SpecQr == InitQr /\ [][NextQr]_vars

\* the call makes no more than request_retries attempts, and none after an
\* AuthToken error was raised or the 2FA step was entered
C30_AttemptsBounded ==
    [][/\ heap'[1].attempt <= heap'[1].request_retries
       /\ heap[1].result # "running" => heap'[1].attempt = heap[1].attempt
       /\ last'.arg \in {"AuthTokenAlreadyAcceptedError",
                         "AuthTokenExpiredError", "AuthTokenInvalidError"}
              => heap'[1].result = last'.arg
       /\ last'.arg = "SessionPasswordNeededError"
              => heap'[1].result = "2fa"]_vars

\* C30: _performQRLogin makes at most request_retries attempts; when an
\* attempt has completed the login the call returns the new client, also
\* behind attempts that timed out; it raises TimeoutError only when every
\* attempt timed out; an AuthToken error is raised at once and a
\* SessionPasswordNeeded error leads into the 2FA step, both without a
\* further attempt.
C30_QRLoginRetry ==
    [][/\ heap'[1].attempt <= heap'[1].request_retries
       /\ heap[1].result # "running" => heap'[1].attempt = heap[1].attempt
       /\ last'.arg \in {"AuthTokenAlreadyAcceptedError",
                         "AuthTokenExpiredError", "AuthTokenInvalidError"}
              => heap'[1].result = last'.arg
       /\ last'.arg = "SessionPasswordNeededError"
              => heap'[1].result = "2fa"
       /\ heap'[1].completed => heap'[1].result = "returned"
       /\ heap'[1].result = "TimeoutError"
              => heap'[1].timeouts = heap'[1].attempt]_vars

=============================================================================
